---- MODULE Spec2Model ----
(***************************************************************************)
(* Three garbage collectors over an explicit object-reference graph:       *)
(*   ms  MarkSweepGC        (mark_sweep/src/mark_sweep_gc.cpp)             *)
(*   cd  CascadeDeletionGC  (mark_sweep/mark_sweep/src/cascade_deletion_gc.cpp) *)
(*   rc  RCHeap + ReferenceCounter (reference_counting/cpp/src)            *)
(* A driver constructs exactly one collector and feeds it operations.      *)
(***************************************************************************)
EXTENDS Integers, Sequences, FiniteSets, TLC

\* ---------------------------------------------------------------- bounds
\* Number of object ids the driver uses (ms/cd: cap on next_object_id).
MaxObj == 3
\* Constructor argument max_heap_size of the general driver.
MaxHeapSize == 192
\* The valid allocation sizes the drivers use.
SmallSize == 64
LargeSize == 128
\* Largest argument the driver passes to set_current_step.
MaxStep == 0
\* Number of objects of the scripted scenarios (r, a, b, c / root, A, B, C).
ScenObj == 4
\* Largest simulation step of the driver in which the step varies.
StepMax == 1

Ids == 0 .. (MaxObj - 1)
ScenIds == 0 .. (ScenObj - 1)
\* Arguments of the RC heap's operations: caller-chosen ids, -1 is invalid.
RcArgs == (-1) .. (MaxObj - 1)

VARIABLES
    gc,                       \* which collector the driver constructed
    max_heap_size,            \* ms/cd: constructor argument
    heap,                     \* ms/cd: unordered_map<int, HeapObject>
    next_object_id,           \* ms/cd
    current_step,             \* ms/cd
    total_objects_collected,  \* ms/cd statistics
    total_memory_freed,       \* ms/cd statistics
    objects,                  \* rc: unordered_map<int, RCObject>
    roots,                    \* rc: unordered_set<int>
    events,                   \* rc: what the last operation sent to the EventLogger
    negative_reported,        \* rc: a "ref_count became negative" branch was taken
    run                       \* the call in progress, for the driver that follows
                              \* collect() and the cascades one loop iteration at a time

vars == <<gc, max_heap_size, heap, next_object_id, current_step,
          total_objects_collected, total_memory_freed, objects, roots, events,
          negative_reported, run>>

gvars == <<heap, next_object_id, current_step, total_objects_collected,
           total_memory_freed>>
rcvars == <<objects, roots, events, negative_reported>>

\* Arguments of allocate(size): 0 and max_heap_size + SmallSize are invalid.
AllocSizes == {0, SmallSize, LargeSize, max_heap_size + SmallSize}

\* ---------------------------------------------------------------- helpers
RECURSIVE SortedSeq(_)
\* Iteration order of a std::set<int>: ascending.
SortedSeq(S) ==
    IF S = {} THEN <<>>
    ELSE LET m == CHOOSE x \in S : \A y \in S : x <= y
         IN <<m>> \o SortedSeq(S \ {m})

\* Every iteration order an unordered_map with key set S may have.
Orders(S) ==
    {f \in [1 .. Cardinality(S) -> S] : \A i, j \in 1 .. Cardinality(S) : i # j => f[i] # f[j]}

\* ---------------------------------------------------------------- HeapObject
HeapObject(id, size) ==
    [id |-> id, size |-> size, is_marked |-> FALSE, reference_count |-> 0,
     outgoing_references |-> {}, incoming_references |-> {},
     is_root |-> FALSE, is_alive |-> TRUE,
     allocation_step |-> -1, collection_step |-> -1]

add_reference_to(obj, target_id) ==
    [obj EXCEPT !.outgoing_references = @ \cup {target_id}]
remove_reference_to(obj, target_id) ==
    [obj EXCEPT !.outgoing_references = @ \ {target_id}]
add_reference_from(obj, source_id) ==
    [obj EXCEPT !.incoming_references = @ \cup {source_id}]
remove_reference_from(obj, source_id) ==
    [obj EXCEPT !.incoming_references = @ \ {source_id}]
\* Mutant of get_incoming_reference_count: reads the reference_count field.
get_incoming_reference_count_field(obj) == obj.reference_count
get_incoming_reference_count(obj) == Cardinality(obj.incoming_references)

\* ---------------------------------------------------------------- shared queries
\* Mutant of object_exists: the alive flag is not looked at.
object_exists_any(h, id) == id \in DOMAIN h

\* MarkSweepGC::object_exists and CascadeDeletionGC::object_exists (same text).
object_exists(h, id) == id \in DOMAIN h /\ h[id].is_alive

RECURSIVE SumSizes(_, _)
SumSizes(h, S) ==
    IF S = {} THEN 0
    ELSE LET x == CHOOSE y \in S : TRUE
         IN (IF h[x].is_alive THEN h[x].size ELSE 0) + SumSizes(h, S \ {x})

get_total_memory(h) == SumSizes(h, DOMAIN h)
\* size_t subtraction: a negative difference stands for the wrapped value
\* 2^64 + difference.
get_free_memory(h) == max_heap_size - get_total_memory(h)
\* Mutant of has_enough_memory: every request is said to fit.
has_enough_memory_any(h, size) == TRUE

\* Mutant of has_enough_memory: a request that fits exactly is refused.
has_enough_memory_strict(h, size) ==
    IF get_free_memory(h) < 0 THEN TRUE ELSE get_free_memory(h) > size

\* get_free_memory() >= size in size_t: a wrapped value exceeds every size.
has_enough_memory(h, size) ==
    IF get_free_memory(h) < 0 THEN TRUE ELSE get_free_memory(h) >= size
get_alive_objects_count(h) == Cardinality({i \in DOMAIN h : h[i].is_alive})

\* The object record allocate() stores under a fresh id.
NewObject(h, id, size, step) ==
    [i \in DOMAIN h \cup {id} |->
        IF i = id THEN [HeapObject(id, size) EXCEPT !.allocation_step = step]
        ELSE h[i]]

\* ---------------------------------------------------------------- Mark-Sweep
\* Mutant of dfs_mark: the outgoing references are not followed.
dfs_mark_shallow(h, object_id) ==
    IF ~object_exists(h, object_id) THEN h
    ELSE [h EXCEPT ![object_id].is_marked = TRUE]

RECURSIVE dfs_mark(_, _), dfs_targets(_, _, _)
dfs_mark(h, object_id) ==
    IF ~object_exists(h, object_id) THEN h
    ELSE IF h[object_id].is_marked THEN h
    ELSE LET h1 == [h EXCEPT ![object_id].is_marked = TRUE]
         IN dfs_targets(h1, SortedSeq(h1[object_id].outgoing_references), 1)
\* The loop of dfs_mark over obj.outgoing_references.
dfs_targets(h, targets, i) ==
    IF i > Len(targets) THEN h
    ELSE dfs_targets(IF ~h[targets[i]].is_marked THEN dfs_mark(h, targets[i]) ELSE h,
                     targets, i + 1)

\* ord: the order in which the unordered_map heap is iterated.
get_root_objects(h, ord) ==
    LET IsRoot(i) == h[i].is_root /\ h[i].is_alive
    IN SelectSeq(ord, IsRoot)

RECURSIVE mark_roots(_, _, _)
\* The loop of mark_phase over the roots.
mark_roots(h, rootseq, i) ==
    IF i > Len(rootseq) THEN h
    ELSE mark_roots(dfs_mark(h, rootseq[i]), rootseq, i + 1)

mark_phase(h, ord) ==
    LET h0 == [i \in DOMAIN h |-> [h[i] EXCEPT !.is_marked = FALSE]]
    IN mark_roots(h0, get_root_objects(h0, ord), 1)

\* Mutant of sweep_selects: sweeps only objects nothing points to.
sweep_selects_orphans_only(obj) ==
    ~obj.is_marked /\ ~obj.is_root /\ obj.is_alive /\ obj.incoming_references = {}

\* Which objects sweep_phase puts on its to_delete list.
sweep_selects(obj) == ~obj.is_marked /\ ~obj.is_root /\ obj.is_alive

\* Mutant of sweep_one: the targets' incoming sets are not updated.
sweep_one_keeps_incoming(h, id, step) ==
    LET h1 == [x \in DOMAIN h |->
                 IF x \in h[id].incoming_references /\ object_exists(h, x)
                 THEN remove_reference_to(h[x], id) ELSE h[x]]
    IN [h1 EXCEPT ![id].is_alive = FALSE, ![id].collection_step = step]

\* Mutant of sweep_one: collection_step is not stamped.
sweep_one_unstamped(h, id, step) ==
    LET h1 == [x \in DOMAIN h |->
                 IF x \in h[id].incoming_references /\ object_exists(h, x)
                 THEN remove_reference_to(h[x], id) ELSE h[x]]
        h2 == [x \in DOMAIN h1 |->
                 IF x \in h1[id].outgoing_references /\ object_exists(h1, x)
                 THEN remove_reference_from(h1[x], id) ELSE h1[x]]
    IN [h2 EXCEPT ![id].is_alive = FALSE]

\* Mutant of sweep_one: the sources of the killed object lose every outgoing
\* edge, not only the one to it.
sweep_one_unlinks_sources(h, id, step) ==
    LET h1 == [x \in DOMAIN h |->
                 IF x \in h[id].incoming_references /\ object_exists(h, x)
                 THEN [h[x] EXCEPT !.outgoing_references = {}] ELSE h[x]]
        h2 == [x \in DOMAIN h1 |->
                 IF x \in h1[id].outgoing_references /\ object_exists(h1, x)
                 THEN remove_reference_from(h1[x], id) ELSE h1[x]]
    IN [h2 EXCEPT ![id].is_alive = FALSE, ![id].collection_step = step]

\* One iteration of sweep_phase's deletion loop.
sweep_one(h, id, step) ==
    LET h1 == [x \in DOMAIN h |->
                 IF x \in h[id].incoming_references /\ object_exists(h, x)
                 THEN remove_reference_to(h[x], id) ELSE h[x]]
        h2 == [x \in DOMAIN h1 |->
                 IF x \in h1[id].outgoing_references /\ object_exists(h1, x)
                 THEN remove_reference_from(h1[x], id) ELSE h1[x]]
    IN [h2 EXCEPT ![id].is_alive = FALSE, ![id].collection_step = step]

RECURSIVE sweep_loop(_, _, _, _)
sweep_loop(h, to_delete, i, step) ==
    IF i > Len(to_delete) THEN h
    ELSE sweep_loop(sweep_one(h, to_delete[i], step), to_delete, i + 1, step)

\* Mutant of SeqSizes: every object counts as one of the small size.
SeqSizes_flat(h, s, i) == (Len(s) - i + 1) * SmallSize

RECURSIVE SeqSizes(_, _, _)
SeqSizes(h, s, i) == IF i > Len(s) THEN 0 ELSE h[s[i]].size + SeqSizes(h, s, i + 1)

\* Mutant of sweep_phase: the deletion loop stops after its first object.
sweep_phase_first_only(h, ord, step) ==
    LET ToDelete(i) == sweep_selects(h[i])
        all == SelectSeq(ord, ToDelete)
        to_delete == IF all = <<>> THEN <<>> ELSE <<all[1]>>
    IN [heap |-> sweep_loop(h, to_delete, 1, step),
        freed |-> SeqSizes(h, to_delete, 1),
        count |-> Len(to_delete)]

\* [heap, freed, count]: the heap after the sweep, the bytes it returns, and
\* the number of objects it adds to total_objects_collected.
sweep_phase(h, ord, step) ==
    LET ToDelete(i) == sweep_selects(h[i])
        to_delete == SelectSeq(ord, ToDelete)
    IN [heap |-> sweep_loop(h, to_delete, 1, step),
        freed |-> SeqSizes(h, to_delete, 1),
        count |-> Len(to_delete)]

\* MarkSweepGC::collect on heap h: [heap, freed, count], freed is the return value.
ms_collect(h, ord, step) == sweep_phase(mark_phase(h, ord), ord, step)

\* Mutant of ms_allocate: the size is not compared with the capacity.
ms_allocate_unbounded(size, ord) ==
    IF size = 0
    THEN [heap |-> heap, next |-> next_object_id, freed |-> 0, count |-> 0,
          collected |-> FALSE, ret |-> -1]
    ELSE LET low == ~has_enough_memory(heap, size)
             r == IF low THEN ms_collect(heap, ord, current_step)
                  ELSE [heap |-> heap, freed |-> 0, count |-> 0]
         IN IF ~has_enough_memory(r.heap, size)
            THEN [heap |-> r.heap, next |-> next_object_id, freed |-> r.freed,
                  count |-> r.count, collected |-> low, ret |-> -1]
            ELSE [heap |-> NewObject(r.heap, next_object_id, size, current_step),
                  next |-> next_object_id + 1, freed |-> r.freed,
                  count |-> r.count, collected |-> low, ret |-> next_object_id]

\* MarkSweepGC::allocate: [heap, next, freed, count, collected, ret].
ms_allocate(size, ord) ==
    IF size = 0 \/ size > max_heap_size
    THEN [heap |-> heap, next |-> next_object_id, freed |-> 0, count |-> 0,
          collected |-> FALSE, ret |-> -1]
    ELSE LET low == ~has_enough_memory(heap, size)
             r == IF low THEN ms_collect(heap, ord, current_step)
                  ELSE [heap |-> heap, freed |-> 0, count |-> 0]
         IN IF ~has_enough_memory(r.heap, size)
            THEN [heap |-> r.heap, next |-> next_object_id, freed |-> r.freed,
                  count |-> r.count, collected |-> low, ret |-> -1]
            ELSE [heap |-> NewObject(r.heap, next_object_id, size, current_step),
                  next |-> next_object_id + 1, freed |-> r.freed,
                  count |-> r.count, collected |-> low, ret |-> next_object_id]

\* MarkSweepGC::add_reference: [heap, ret].
ms_add_reference(from_id, to_id) ==
    IF ~object_exists(heap, from_id) THEN [heap |-> heap, ret |-> FALSE]
    ELSE IF ~object_exists(heap, to_id) THEN [heap |-> heap, ret |-> FALSE]
    ELSE IF to_id \in heap[from_id].outgoing_references
    THEN [heap |-> heap, ret |-> TRUE]
    ELSE LET h1 == [heap EXCEPT ![from_id] = add_reference_to(@, to_id)]
         IN [heap |-> [h1 EXCEPT ![to_id] = add_reference_from(@, from_id)],
             ret |-> TRUE]

\* Mutant of ms_remove_reference: a target that loses its last incoming edge
\* and is not a root is killed at once.
ms_remove_reference_reactive(from_id, to_id) ==
    IF ~object_exists(heap, from_id) THEN [heap |-> heap, ret |-> FALSE]
    ELSE IF ~object_exists(heap, to_id) THEN [heap |-> heap, ret |-> FALSE]
    ELSE IF to_id \notin heap[from_id].outgoing_references
    THEN [heap |-> heap, ret |-> FALSE]
    ELSE LET h1 == [heap EXCEPT ![from_id] = remove_reference_to(@, to_id)]
             h2 == [h1 EXCEPT ![to_id] = remove_reference_from(@, from_id)]
         IN [heap |-> IF ~h2[to_id].is_root /\ h2[to_id].incoming_references = {}
                      THEN [h2 EXCEPT ![to_id].is_alive = FALSE] ELSE h2,
             ret |-> TRUE]

\* MarkSweepGC::remove_reference: [heap, ret].
ms_remove_reference(from_id, to_id) ==
    IF ~object_exists(heap, from_id) THEN [heap |-> heap, ret |-> FALSE]
    ELSE IF ~object_exists(heap, to_id) THEN [heap |-> heap, ret |-> FALSE]
    ELSE IF to_id \notin heap[from_id].outgoing_references
    THEN [heap |-> heap, ret |-> FALSE]
    ELSE LET h1 == [heap EXCEPT ![from_id] = remove_reference_to(@, to_id)]
         IN [heap |-> [h1 EXCEPT ![to_id] = remove_reference_from(@, from_id)],
             ret |-> TRUE]

ms_make_root(object_id) ==
    IF object_exists(heap, object_id)
    THEN [heap EXCEPT ![object_id].is_root = TRUE] ELSE heap

ms_remove_root(object_id) ==
    IF object_exists(heap, object_id)
    THEN [heap EXCEPT ![object_id].is_root = FALSE] ELSE heap

MSCollect ==
    /\ gc = "ms"
    /\ \E ord \in Orders(DOMAIN heap) :
         LET r == ms_collect(heap, ord, current_step)
         IN /\ heap' = r.heap
            /\ total_objects_collected' = total_objects_collected + r.count
            /\ total_memory_freed' = total_memory_freed + r.freed
    /\ UNCHANGED <<gc, max_heap_size, run, next_object_id, current_step, rcvars>>

MSAllocate(size) ==
    /\ gc = "ms"
    /\ \E ord \in Orders(DOMAIN heap) :
         LET r == ms_allocate(size, ord)
         IN /\ heap' = r.heap
            /\ next_object_id' = r.next
            /\ total_objects_collected' = total_objects_collected + r.count
            /\ total_memory_freed' = total_memory_freed + r.freed
    /\ UNCHANGED <<gc, max_heap_size, run, current_step, rcvars>>

MSAddReference(from_id, to_id) ==
    /\ gc = "ms"
    /\ heap' = ms_add_reference(from_id, to_id).heap
    /\ UNCHANGED <<gc, max_heap_size, run, next_object_id, current_step,
                   total_objects_collected, total_memory_freed, rcvars>>

MSRemoveReference(from_id, to_id) ==
    /\ gc = "ms"
    /\ heap' = ms_remove_reference(from_id, to_id).heap
    /\ UNCHANGED <<gc, max_heap_size, run, next_object_id, current_step,
                   total_objects_collected, total_memory_freed, rcvars>>

MSMakeRoot(object_id) ==
    /\ gc = "ms"
    /\ heap' = ms_make_root(object_id)
    /\ UNCHANGED <<gc, max_heap_size, run, next_object_id, current_step,
                   total_objects_collected, total_memory_freed, rcvars>>

MSRemoveRoot(object_id) ==
    /\ gc = "ms"
    /\ heap' = ms_remove_root(object_id)
    /\ UNCHANGED <<gc, max_heap_size, run, next_object_id, current_step,
                   total_objects_collected, total_memory_freed, rcvars>>

\* set_current_step of either graph collector.
SetCurrentStep(step) ==
    /\ gc \in {"ms", "cd"}
    /\ current_step' = step
    /\ UNCHANGED <<gc, max_heap_size, run, heap, next_object_id,
                   total_objects_collected, total_memory_freed, rcvars>>

\* ---------------------------------------------------------------- Cascade
\* Mutant of should_be_deleted: the incoming count is not looked at.
should_be_deleted_any_nonroot(h, object_id) ==
    IF ~object_exists(h, object_id) THEN FALSE
    ELSE ~h[object_id].is_root

should_be_deleted(h, object_id) ==
    IF ~object_exists(h, object_id) THEN FALSE
    ELSE IF h[object_id].is_root THEN FALSE
    ELSE get_incoming_reference_count(h[object_id]) = 0

\* One iteration of the while loop of cascade_delete, the queue not empty.
\* st = [heap, queue, processed, freed, count]; deletion_queue and
\* processed_in_cascade are reset at every entry of cascade_delete and never
\* read between calls.
cascade_iter(st, step) ==
    LET current_id == Head(st.queue)
        h == st.heap
        popped == [st EXCEPT !.queue = Tail(@)]
    IN IF current_id \in st.processed THEN popped
       ELSE
         LET seen == [popped EXCEPT !.processed = @ \cup {current_id}]
         IN IF ~object_exists(h, current_id) THEN seen
            ELSE IF h[current_id].is_root THEN seen
            ELSE
              LET h1 == [x \in DOMAIN h |->
                           IF x \in h[current_id].incoming_references
                              /\ object_exists(h, x)
                           THEN remove_reference_to(h[x], current_id) ELSE h[x]]
                  targets == h1[current_id].outgoing_references
                  h2 == [x \in DOMAIN h1 |->
                           IF x \in targets /\ object_exists(h1, x)
                           THEN remove_reference_from(h1[x], current_id) ELSE h1[x]]
                  Pushed(t) == object_exists(h1, t) /\ should_be_deleted(h2, t)
                  h3 == [h2 EXCEPT ![current_id].is_alive = FALSE,
                                   ![current_id].collection_step = step]
              IN [heap |-> h3,
                  queue |-> seen.queue \o SelectSeq(SortedSeq(targets), Pushed),
                  processed |-> seen.processed,
                  freed |-> st.freed + h[current_id].size,
                  count |-> st.count + 1]

RECURSIVE cascade_loop(_, _)
\* The while loop of cascade_delete.
cascade_loop(st, step) ==
    IF st.queue = <<>> THEN st ELSE cascade_loop(cascade_iter(st, step), step)

\* Mutant of cascade_delete: only the object itself is deleted.
cascade_delete_single(h, object_id, step) ==
    IF ~object_exists(h, object_id) THEN [heap |-> h, freed |-> 0, count |-> 0]
    ELSE [heap |-> sweep_one(h, object_id, step),
          freed |-> h[object_id].size, count |-> 1]

\* CascadeDeletionGC::cascade_delete: [heap, freed, count]; freed is the return
\* value, count what it adds to total_objects_collected.
cascade_delete(h, object_id, step) ==
    IF ~object_exists(h, object_id) THEN [heap |-> h, freed |-> 0, count |-> 0]
    ELSE LET st == cascade_loop([heap |-> h, queue |-> <<object_id>>,
                                 processed |-> {}, freed |-> 0, count |-> 0], step)
         IN [heap |-> st.heap, freed |-> st.freed, count |-> st.count]

\* Mutant of is_orphan: the incoming count is not looked at.
is_orphan_any_nonroot(obj) == obj.is_alive /\ ~obj.is_root

\* Which objects collect() puts on its orphans list.
is_orphan(obj) ==
    obj.is_alive /\ ~obj.is_root /\ get_incoming_reference_count(obj) = 0

RECURSIVE cd_collect_loop(_, _, _, _)
\* Phase 2 of collect(): r = [heap, freed, count].
cd_collect_loop(r, orphans, i, step) ==
    IF i > Len(orphans) THEN r
    ELSE IF object_exists(r.heap, orphans[i])
    THEN LET d == cascade_delete(r.heap, orphans[i], step)
         IN cd_collect_loop([heap |-> d.heap, freed |-> r.freed + d.freed,
                             count |-> r.count + d.count], orphans, i + 1, step)
    ELSE cd_collect_loop(r, orphans, i + 1, step)

\* Mutant of cd_collect: phase 2 handles the first orphan only.
cd_collect_first_orphan(h, ord, step) ==
    LET Orphan(i) == is_orphan(h[i])
        orphans == SelectSeq(ord, Orphan)
    IN cd_collect_loop([heap |-> h, freed |-> 0, count |-> 0],
                       SubSeq(orphans, 1, IF orphans = <<>> THEN 0 ELSE 1), 1, step)

\* CascadeDeletionGC::collect on heap h: [heap, freed, count], freed is the
\* return value and what is added to total_memory_freed.
cd_collect(h, ord, step) ==
    LET Orphan(i) == is_orphan(h[i])
    IN cd_collect_loop([heap |-> h, freed |-> 0, count |-> 0],
                       SelectSeq(ord, Orphan), 1, step)

\* CascadeDeletionGC::allocate: [heap, next, freed, count, collected, ret].
cd_allocate(size, ord) ==
    IF size = 0 \/ size > max_heap_size
    THEN [heap |-> heap, next |-> next_object_id, freed |-> 0, count |-> 0,
          collected |-> FALSE, ret |-> -1]
    ELSE LET low == ~has_enough_memory(heap, size)
             r == IF low THEN cd_collect(heap, ord, current_step)
                  ELSE [heap |-> heap, freed |-> 0, count |-> 0]
         IN IF ~has_enough_memory(r.heap, size)
            THEN [heap |-> r.heap, next |-> next_object_id, freed |-> r.freed,
                  count |-> r.count, collected |-> low, ret |-> -1]
            ELSE [heap |-> NewObject(r.heap, next_object_id, size, current_step),
                  next |-> next_object_id + 1, freed |-> r.freed,
                  count |-> r.count, collected |-> low, ret |-> next_object_id]

\* CascadeDeletionGC::add_reference: [heap, ret].
cd_add_reference(from_id, to_id) ==
    IF ~object_exists(heap, from_id) THEN [heap |-> heap, ret |-> FALSE]
    ELSE IF ~object_exists(heap, to_id) THEN [heap |-> heap, ret |-> FALSE]
    ELSE IF to_id \in heap[from_id].outgoing_references
    THEN [heap |-> heap, ret |-> TRUE]
    ELSE LET h1 == [heap EXCEPT ![from_id] = add_reference_to(@, to_id)]
         IN [heap |-> [h1 EXCEPT ![to_id] = add_reference_from(@, from_id)],
             ret |-> TRUE]

\* CascadeDeletionGC::remove_reference: [heap, count, ret]; count is what the
\* reactive cascade adds to total_objects_collected.
cd_remove_reference(from_id, to_id) ==
    IF ~object_exists(heap, from_id) THEN [heap |-> heap, count |-> 0, ret |-> FALSE]
    ELSE IF ~object_exists(heap, to_id) THEN [heap |-> heap, count |-> 0, ret |-> FALSE]
    ELSE IF to_id \notin heap[from_id].outgoing_references
    THEN [heap |-> heap, count |-> 0, ret |-> FALSE]
    ELSE LET h1 == [heap EXCEPT ![from_id] = remove_reference_to(@, to_id)]
             h2 == [h1 EXCEPT ![to_id] = remove_reference_from(@, from_id)]
         IN IF should_be_deleted(h2, to_id)
            THEN LET d == cascade_delete(h2, to_id, current_step)
                 IN [heap |-> d.heap, count |-> d.count, ret |-> TRUE]
            ELSE [heap |-> h2, count |-> 0, ret |-> TRUE]

cd_make_root(object_id) ==
    IF object_exists(heap, object_id)
    THEN [heap EXCEPT ![object_id].is_root = TRUE] ELSE heap

\* Mutant of cd_remove_root: an object unrooted with no incoming edge is
\* cascade-deleted at once.
cd_remove_root_reactive(object_id) ==
    IF object_exists(heap, object_id)
    THEN LET h == [heap EXCEPT ![object_id].is_root = FALSE]
         IN IF should_be_deleted(h, object_id)
            THEN cascade_delete(h, object_id, current_step).heap ELSE h
    ELSE heap

cd_remove_root(object_id) ==
    IF object_exists(heap, object_id)
    THEN [heap EXCEPT ![object_id].is_root = FALSE] ELSE heap

CDCollect ==
    /\ gc = "cd"
    /\ \E ord \in Orders(DOMAIN heap) :
         LET r == cd_collect(heap, ord, current_step)
         IN /\ heap' = r.heap
            /\ total_objects_collected' = total_objects_collected + r.count
            /\ total_memory_freed' = total_memory_freed + r.freed
    /\ UNCHANGED <<gc, max_heap_size, run, next_object_id, current_step, rcvars>>

CDAllocate(size) ==
    /\ gc = "cd"
    /\ \E ord \in Orders(DOMAIN heap) :
         LET r == cd_allocate(size, ord)
         IN /\ heap' = r.heap
            /\ next_object_id' = r.next
            /\ total_objects_collected' = total_objects_collected + r.count
            /\ total_memory_freed' = total_memory_freed + r.freed
    /\ UNCHANGED <<gc, max_heap_size, run, current_step, rcvars>>

CDAddReference(from_id, to_id) ==
    /\ gc = "cd"
    /\ heap' = cd_add_reference(from_id, to_id).heap
    /\ UNCHANGED <<gc, max_heap_size, run, next_object_id, current_step,
                   total_objects_collected, total_memory_freed, rcvars>>

CDRemoveReference(from_id, to_id) ==
    /\ gc = "cd"
    /\ LET r == cd_remove_reference(from_id, to_id)
       IN /\ heap' = r.heap
          /\ total_objects_collected' = total_objects_collected + r.count
    /\ UNCHANGED <<gc, max_heap_size, run, next_object_id, current_step,
                   total_memory_freed, rcvars>>

CDMakeRoot(object_id) ==
    /\ gc = "cd"
    /\ heap' = cd_make_root(object_id)
    /\ UNCHANGED <<gc, max_heap_size, run, next_object_id, current_step,
                   total_objects_collected, total_memory_freed, rcvars>>

CDRemoveRoot(object_id) ==
    /\ gc = "cd"
    /\ heap' = cd_remove_root(object_id)
    /\ UNCHANGED <<gc, max_heap_size, run, next_object_id, current_step,
                   total_objects_collected, total_memory_freed, rcvars>>

\* ---------------------------------------------------------------- Reference counting
\* Mutant of RCObject: a new object starts with one reference.
RCObject_counted(id) == [id |-> id, ref_count |-> 1, references |-> <<>>]

RCObject(id) == [id |-> id, ref_count |-> 0, references |-> <<>>]

\* Mutant of has_reference_to: every reference is reported as present.
has_reference_to_always(obj, target_id) == TRUE

has_reference_to(obj, target_id) ==
    \E i \in 1 .. Len(obj.references) : obj.references[i] = target_id

add_outgoing_ref(obj, target_id) ==
    IF ~has_reference_to(obj, target_id)
    THEN [obj EXCEPT !.references = Append(@, target_id)] ELSE obj

\* Mutant of remove_outgoing_ref: the reference stays in the list.
remove_outgoing_ref_kept(obj, target_id) == obj

remove_outgoing_ref(obj, target_id) ==
    LET Keep(x) == x # target_id
    IN [obj EXCEPT !.references = SelectSeq(@, Keep)]

\* Mutant of Erase: the entry stays in the map.
Erase_none(objs, id) == objs

\* unordered_map::erase.
Erase(objs, id) == [i \in DOMAIN objs \ {id} |-> objs[i]]

LogAllocate(id) == [event |-> "allocate", object |-> id]
LogAddRef(from, to, n) == [event |-> "add_ref", from |-> from, to |-> to, ref_count |-> n]
LogRemoveRef(from, to, n) == [event |-> "remove_ref", from |-> from, to |-> to, ref_count |-> n]
LogDelete(id) == [event |-> "delete", object |-> id]
LogLeak(id) == [event |-> "leak", object |-> id]

\* Mutant of rc_cascade_delete: the children are decremented but a child that
\* reaches 0 is not deleted.
rc_cascade_delete_flat(st, obj_id) ==
    IF obj_id \notin DOMAIN st.objects THEN st
    ELSE IF st.objects[obj_id].ref_count # 0 THEN st
    ELSE LET obj == st.objects[obj_id]
             Dec(n) == IF n > 0 THEN n - 1 ELSE 0
         IN [st EXCEPT
               !.visited = @ \cup {obj_id},
               !.objects = [x \in DOMAIN st.objects \ {obj_id} |->
                              IF has_reference_to(obj, x)
                              THEN [st.objects[x] EXCEPT !.ref_count = Dec(@)]
                              ELSE st.objects[x]],
               !.events = Append(@, LogDelete(obj_id))]

RECURSIVE rc_cascade_delete(_, _), rc_cascade_children(_, _, _, _)
\* Mutant of rc_cascade_delete: the delete event is logged before the children
\* are visited.
rc_cascade_delete_preorder(st, obj_id) ==
    IF obj_id \notin DOMAIN st.objects THEN st
    ELSE IF obj_id \in st.visited THEN st
    ELSE LET st1 == [st EXCEPT !.visited = @ \cup {obj_id}]
         IN IF st1.objects[obj_id].ref_count # 0 THEN st1
            ELSE LET st2 == rc_cascade_children(
                              [st1 EXCEPT !.events = Append(@, LogDelete(obj_id))],
                              obj_id, st1.objects[obj_id].references, 1)
                 IN [st2 EXCEPT !.objects = Erase(@, obj_id)]

\* ReferenceCounter::cascade_delete. st = [objects, visited, events, negative].
rc_cascade_delete(st, obj_id) ==
    IF obj_id \notin DOMAIN st.objects THEN st
    ELSE IF obj_id \in st.visited THEN st
    ELSE LET st1 == [st EXCEPT !.visited = @ \cup {obj_id}]
         IN IF st1.objects[obj_id].ref_count # 0 THEN st1
            ELSE LET st2 == rc_cascade_children(st1, obj_id,
                                                st1.objects[obj_id].references, 1)
                 IN [st2 EXCEPT !.objects = Erase(@, obj_id),
                                !.events = Append(@, LogDelete(obj_id))]
\* The loop of cascade_delete over the copied children.
rc_cascade_children(st, obj_id, children, i) ==
    IF i > Len(children) THEN st
    ELSE
      LET child == children[i]
      IN IF child \notin DOMAIN st.objects
         THEN rc_cascade_children(st, obj_id, children, i + 1)
         ELSE
           LET dec == st.objects[child].ref_count - 1
               n == IF dec < 0 THEN 0 ELSE dec
               st1 == [st EXCEPT !.objects[child].ref_count = n,
                                 !.negative = @ \/ (dec < 0),
                                 !.events = Append(@, LogRemoveRef(obj_id, child, n))]
               st2 == IF n = 0 THEN rc_cascade_delete(st1, child) ELSE st1
           IN rc_cascade_children(st2, obj_id, children, i + 1)

\* Result of an RC operation: [objects, roots, events, negative, ret].
RcFail == [objects |-> objects, roots |-> roots, events |-> <<>>,
           negative |-> negative_reported, ret |-> FALSE]

\* RCHeap::object_exists.
rc_object_exists(obj_id) == obj_id \in DOMAIN objects

\* RCHeap::allocate.
rc_allocate(obj_id) ==
    IF obj_id \in DOMAIN objects THEN RcFail
    ELSE IF obj_id < 0 THEN RcFail
    ELSE [RcFail EXCEPT
            !.objects = [i \in DOMAIN objects \cup {obj_id} |->
                           IF i = obj_id THEN RCObject(obj_id) ELSE objects[i]],
            !.events = <<LogAllocate(obj_id)>>,
            !.ret = TRUE]

\* Mutant of rc_add_root: the root's ref_count is not raised.
rc_add_root_uncounted(obj_id) ==
    IF ~rc_object_exists(obj_id) THEN RcFail
    ELSE IF obj_id \in roots THEN RcFail
    ELSE [RcFail EXCEPT
            !.roots = @ \cup {obj_id},
            !.events = <<LogAddRef(0, obj_id, objects[obj_id].ref_count)>>,
            !.ret = TRUE]

\* RCHeap::add_root.
rc_add_root(obj_id) ==
    IF ~rc_object_exists(obj_id) THEN RcFail
    ELSE IF obj_id \in roots THEN RcFail
    ELSE [RcFail EXCEPT
            !.roots = @ \cup {obj_id},
            !.objects[obj_id].ref_count = @ + 1,
            !.events = <<LogAddRef(0, obj_id, objects[obj_id].ref_count + 1)>>,
            !.ret = TRUE]

\* Mutant of rc_remove_root: the id is left in the root set.
rc_remove_root_keeps_entry(obj_id) ==
    IF ~rc_object_exists(obj_id) THEN RcFail
    ELSE IF obj_id \notin roots THEN RcFail
    ELSE LET dec == objects[obj_id].ref_count - 1
         IN IF dec < 0
            THEN [RcFail EXCEPT !.objects[obj_id].ref_count = 0,
                                !.negative = TRUE]
            ELSE LET o1 == [objects EXCEPT ![obj_id].ref_count = dec]
                     ev == <<LogRemoveRef(0, obj_id, dec)>>
                     st == IF dec = 0
                           THEN rc_cascade_delete([objects |-> o1, visited |-> {},
                                                   events |-> ev,
                                                   negative |-> negative_reported],
                                                  obj_id)
                           ELSE [objects |-> o1, visited |-> {}, events |-> ev,
                                 negative |-> negative_reported]
                 IN [objects |-> st.objects, roots |-> roots,
                     events |-> st.events, negative |-> st.negative, ret |-> TRUE]

\* RCHeap::remove_root.
rc_remove_root(obj_id) ==
    IF ~rc_object_exists(obj_id) THEN RcFail
    ELSE IF obj_id \notin roots THEN RcFail
    ELSE LET dec == objects[obj_id].ref_count - 1
         IN IF dec < 0
            THEN [RcFail EXCEPT !.roots = @ \ {obj_id},
                                !.objects[obj_id].ref_count = 0,
                                !.negative = TRUE]
            ELSE LET o1 == [objects EXCEPT ![obj_id].ref_count = dec]
                     ev == <<LogRemoveRef(0, obj_id, dec)>>
                     st == IF dec = 0
                           THEN rc_cascade_delete([objects |-> o1, visited |-> {},
                                                   events |-> ev,
                                                   negative |-> negative_reported],
                                                  obj_id)
                           ELSE [objects |-> o1, visited |-> {}, events |-> ev,
                                 negative |-> negative_reported]
                 IN [objects |-> st.objects, roots |-> roots \ {obj_id},
                     events |-> st.events, negative |-> st.negative, ret |-> TRUE]

\* Mutant of counter_add_ref: the target's ref_count is not raised.
counter_add_ref_uncounted(from, to) ==
    IF from \notin DOMAIN objects \/ to \notin DOMAIN objects THEN RcFail
    ELSE IF has_reference_to(objects[from], to) THEN RcFail
    ELSE LET o1 == [objects EXCEPT ![from] = add_outgoing_ref(@, to)]
         IN [RcFail EXCEPT !.objects = o1,
                           !.events = <<LogAddRef(from, to, o1[to].ref_count)>>,
                           !.ret = TRUE]

\* ReferenceCounter::add_ref.
counter_add_ref(from, to) ==
    IF from \notin DOMAIN objects \/ to \notin DOMAIN objects THEN RcFail
    ELSE IF has_reference_to(objects[from], to) THEN RcFail
    ELSE LET o1 == [objects EXCEPT ![from] = add_outgoing_ref(@, to)]
             o2 == [o1 EXCEPT ![to].ref_count = @ + 1]
         IN [RcFail EXCEPT !.objects = o2,
                           !.events = <<LogAddRef(from, to, o2[to].ref_count)>>,
                           !.ret = TRUE]

\* RCHeap::add_ref.
rc_add_ref(from, to) ==
    IF from < 0 \/ to < 0 THEN RcFail
    ELSE IF ~rc_object_exists(from) THEN RcFail
    ELSE IF ~rc_object_exists(to) THEN RcFail
    ELSE IF from = to THEN RcFail
    ELSE counter_add_ref(from, to)

\* ReferenceCounter::remove_ref.
counter_remove_ref(from, to) ==
    IF to \notin DOMAIN objects THEN RcFail
    ELSE IF from \notin DOMAIN objects THEN RcFail
    ELSE IF ~has_reference_to(objects[from], to) THEN RcFail
    ELSE LET o1 == [objects EXCEPT ![from] = remove_outgoing_ref(@, to)]
             dec == o1[to].ref_count - 1
         IN IF dec < 0
            THEN [RcFail EXCEPT !.objects = [o1 EXCEPT ![to].ref_count = 0],
                                !.negative = TRUE]
            ELSE LET o2 == [o1 EXCEPT ![to].ref_count = dec]
                     ev == <<LogRemoveRef(from, to, dec)>>
                     st == IF dec = 0
                           THEN rc_cascade_delete([objects |-> o2, visited |-> {},
                                                   events |-> ev,
                                                   negative |-> negative_reported],
                                                  to)
                           ELSE [objects |-> o2, visited |-> {}, events |-> ev,
                                 negative |-> negative_reported]
                 IN [objects |-> st.objects, roots |-> roots,
                     events |-> st.events, negative |-> st.negative, ret |-> TRUE]

\* RCHeap::remove_ref.
rc_remove_ref(from, to) ==
    IF from < 0 \/ to < 0 THEN RcFail
    ELSE IF ~rc_object_exists(from) THEN RcFail
    ELSE IF ~rc_object_exists(to) THEN RcFail
    ELSE counter_remove_ref(from, to)

\* RCHeap::detect_and_log_leaks: the leak events, in the iteration order ord
\* of the unordered_map objects.
detect_and_log_leaks(ord) ==
    LET Leaks(i) == objects[i].ref_count > 0
        leaked == SelectSeq(ord, Leaks)
    IN [i \in 1 .. Len(leaked) |-> LogLeak(leaked[i])]

\* The assignments an RC operation with result r makes.
RcApply(r) ==
    /\ objects' = r.objects
    /\ roots' = r.roots
    /\ events' = r.events
    /\ negative_reported' = r.negative

RCAllocate(obj_id) ==
    /\ gc = "rc"
    /\ RcApply(rc_allocate(obj_id))
    /\ UNCHANGED <<gc, max_heap_size, run, gvars>>

RCAddRoot(obj_id) ==
    /\ gc = "rc"
    /\ RcApply(rc_add_root(obj_id))
    /\ UNCHANGED <<gc, max_heap_size, run, gvars>>

RCRemoveRoot(obj_id) ==
    /\ gc = "rc"
    /\ RcApply(rc_remove_root(obj_id))
    /\ UNCHANGED <<gc, max_heap_size, run, gvars>>

RCAddRef(from, to) ==
    /\ gc = "rc"
    /\ RcApply(rc_add_ref(from, to))
    /\ UNCHANGED <<gc, max_heap_size, run, gvars>>

RCRemoveRef(from, to) ==
    /\ gc = "rc"
    /\ RcApply(rc_remove_ref(from, to))
    /\ UNCHANGED <<gc, max_heap_size, run, gvars>>

RCDetectLeaks ==
    /\ gc = "rc"
    /\ \E ord \in Orders(DOMAIN objects) : events' = detect_and_log_leaks(ord)
    /\ UNCHANGED <<gc, max_heap_size, run, gvars, objects, roots, negative_reported>>

\* ---------------------------------------------------------------- calls in steps
\* The recursion of dfs_mark, the worklist of CascadeDeletionGC::cascade_delete
\* and the recursion of ReferenceCounter::cascade_delete followed one call or
\* one loop iteration at a time. run holds what the call in progress keeps on
\* the C++ stack and in its work containers:
\*   pc         "idle", "mark" (MarkSweepGC::collect), "cascade"
\*              (CascadeDeletionGC), "rc" (ReferenceCounter::cascade_delete)
\*   stack      the frames of the recursion, [id, targets, i]: the object, the
\*              container its loop iterates and the position in it
\*   pending    the roots mark_phase, or the orphans collect(), has yet to take
\*   ord        the iteration order of the unordered_map during this call
\*   visits     how often each object was marked / processed / entered
\*   queue, processed   deletion_queue and processed_in_cascade, or the
\*              visited set of ReferenceCounter::cascade_delete
\*   freed      the bytes collect() has summed up so far
\*   size       the size allocate() waits to allocate after its collect(), or 0
\*   caller     which operation of CascadeDeletionGC called cascade_delete
\*   entry, arg what the collect() or the outermost cascade_delete started
\*              from and its argument; nothing reads them but the comparison
\*              of the finished call with the call taken in one piece
RunIdle ==
    [pc |-> "idle", stack |-> <<>>, pending |-> <<>>, ord |-> <<>>,
     visits |-> <<>>, queue |-> <<>>, processed |-> {}, freed |-> 0, size |-> 0,
     caller |-> "", entry |-> <<>>, arg |-> -1]

\* visits with one more visit of id.
Visit(v, id) ==
    [x \in DOMAIN v \cup {id} |->
       IF x = id THEN (IF id \in DOMAIN v THEN v[id] + 1 ELSE 1) ELSE v[x]]

\* Mutant of dfs_enter: an object already marked is marked again.
dfs_enter_unguarded(h, stk, v, object_id) ==
    IF ~object_exists(h, object_id) THEN [heap |-> h, stack |-> stk, visits |-> v]
    ELSE [heap |-> [h EXCEPT ![object_id].is_marked = TRUE],
          stack |-> Append(stk, [id |-> object_id,
                                 targets |-> SortedSeq(h[object_id].outgoing_references),
                                 i |-> 1]),
          visits |-> Visit(v, object_id)]

\* A call dfs_mark(object_id) up to the entry of its loop: [heap, stack, visits].
dfs_enter(h, stk, v, object_id) ==
    IF ~object_exists(h, object_id) THEN [heap |-> h, stack |-> stk, visits |-> v]
    ELSE IF h[object_id].is_marked THEN [heap |-> h, stack |-> stk, visits |-> v]
    ELSE [heap |-> [h EXCEPT ![object_id].is_marked = TRUE],
          stack |-> Append(stk, [id |-> object_id,
                                 targets |-> SortedSeq(h[object_id].outgoing_references),
                                 i |-> 1]),
          visits |-> Visit(v, object_id)]

\* The stack stk with the loop of its top frame moved on by one.
Advance(stk) == [stk EXCEPT ![Len(stk)].i = @ + 1]
\* The stack stk without its top frame.
Pop(stk) == SubSeq(stk, 1, Len(stk) - 1)

\* MarkSweepGC::collect begins: mark_phase unmarks every object and lists the
\* roots. size is 0 for an explicit collect(), else the size allocate() wants.
MSRunCollect(size) ==
    /\ gc = "ms"
    /\ run.pc = "idle"
    /\ \E ord \in Orders(DOMAIN heap) :
         LET h0 == [i \in DOMAIN heap |-> [heap[i] EXCEPT !.is_marked = FALSE]]
         IN /\ heap' = h0
            /\ run' = [RunIdle EXCEPT !.pc = "mark", !.ord = ord, !.size = size,
                                      !.pending = get_root_objects(h0, ord),
                                      !.entry = heap]
    /\ UNCHANGED <<gc, max_heap_size, next_object_id, current_step,
                   total_objects_collected, total_memory_freed, rcvars>>

\* MarkSweepGC::allocate(size) when it has to collect first.
MSRunAllocate(size) ==
    /\ size # 0 /\ size <= max_heap_size
    /\ ~has_enough_memory(heap, size)
    /\ MSRunCollect(size)

\* mark_phase takes the next root: dfs_mark(root_id).
MSRunRoot ==
    /\ gc = "ms"
    /\ run.pc = "mark" /\ run.stack = <<>> /\ run.pending # <<>>
    /\ LET e == dfs_enter(heap, <<>>, run.visits, Head(run.pending))
       IN /\ heap' = e.heap
          /\ run' = [run EXCEPT !.stack = e.stack, !.visits = e.visits,
                                !.pending = Tail(@)]
    /\ UNCHANGED <<gc, max_heap_size, next_object_id, current_step,
                   total_objects_collected, total_memory_freed, rcvars>>

\* One iteration of the loop of the innermost dfs_mark, or its return.
MSRunDfs ==
    /\ gc = "ms"
    /\ run.pc = "mark" /\ run.stack # <<>>
    /\ LET top == run.stack[Len(run.stack)]
       IN IF top.i > Len(top.targets)
          THEN /\ run' = [run EXCEPT !.stack = Pop(@)]
               /\ heap' = heap
          ELSE LET target_id == top.targets[top.i]
                   e == IF ~heap[target_id].is_marked
                        THEN dfs_enter(heap, Advance(run.stack), run.visits, target_id)
                        ELSE [heap |-> heap, stack |-> Advance(run.stack),
                              visits |-> run.visits]
               IN /\ heap' = e.heap
                  /\ run' = [run EXCEPT !.stack = e.stack, !.visits = e.visits]
    /\ UNCHANGED <<gc, max_heap_size, next_object_id, current_step,
                   total_objects_collected, total_memory_freed, rcvars>>

\* Every root is done: sweep_phase, the statistics, and the rest of allocate()
\* if it was allocate() that called collect().
MSRunSweep ==
    /\ gc = "ms"
    /\ run.pc = "mark" /\ run.stack = <<>> /\ run.pending = <<>>
    /\ LET r == sweep_phase(heap, run.ord, current_step)
           fits == run.size # 0 /\ has_enough_memory(r.heap, run.size)
       IN /\ heap' = IF fits
                     THEN NewObject(r.heap, next_object_id, run.size, current_step)
                     ELSE r.heap
          /\ next_object_id' = IF fits THEN next_object_id + 1 ELSE next_object_id
          /\ total_objects_collected' = total_objects_collected + r.count
          /\ total_memory_freed' = total_memory_freed + r.freed
    /\ run' = RunIdle
    /\ UNCHANGED <<gc, max_heap_size, current_step, rcvars>>

\* The heap after the two set updates of a successful
\* CascadeDeletionGC::remove_reference, before its cascade trigger.
cd_unlinked(from_id, to_id) ==
    LET h1 == [heap EXCEPT ![from_id] = remove_reference_to(@, to_id)]
    IN [h1 EXCEPT ![to_id] = remove_reference_from(@, from_id)]

\* CascadeDeletionGC::remove_reference up to the entry of the loop of the
\* cascade_delete(to_id) it triggers.
CDRunRemoveReference(from_id, to_id) ==
    /\ gc = "cd"
    /\ run.pc = "idle"
    /\ object_exists(heap, from_id) /\ object_exists(heap, to_id)
    /\ to_id \in heap[from_id].outgoing_references
    /\ should_be_deleted(cd_unlinked(from_id, to_id), to_id)
    /\ heap' = cd_unlinked(from_id, to_id)
    /\ run' = [RunIdle EXCEPT !.pc = "cascade", !.caller = "remove_reference",
                              !.queue = <<to_id>>,
                              !.entry = cd_unlinked(from_id, to_id), !.arg = to_id]
    /\ UNCHANGED <<gc, max_heap_size, next_object_id, current_step,
                   total_objects_collected, total_memory_freed, rcvars>>

\* CascadeDeletionGC::collect begins: phase 1 lists the orphans. size is 0 for
\* an explicit collect(), else the size allocate() wants.
CDRunCollect(size) ==
    /\ gc = "cd"
    /\ run.pc = "idle"
    /\ \E ord \in Orders(DOMAIN heap) :
         LET Orphan(i) == is_orphan(heap[i])
         IN run' = [RunIdle EXCEPT !.pc = "cascade", !.caller = "collect",
                                   !.ord = ord, !.size = size,
                                   !.pending = SelectSeq(ord, Orphan),
                                   !.entry = heap]
    /\ UNCHANGED <<gc, max_heap_size, heap, next_object_id, current_step,
                   total_objects_collected, total_memory_freed, rcvars>>

\* CascadeDeletionGC::allocate(size) when it has to collect first.
CDRunAllocate(size) ==
    /\ size # 0 /\ size <= max_heap_size
    /\ ~has_enough_memory(heap, size)
    /\ CDRunCollect(size)

\* Phase 2 of collect() takes the next orphan: cascade_delete(orphan_id) up to
\* the entry of its loop, if the object still exists.
CDRunOrphan ==
    /\ gc = "cd"
    /\ run.pc = "cascade" /\ run.queue = <<>> /\ run.pending # <<>>
    /\ run' = IF object_exists(heap, Head(run.pending))
              THEN [run EXCEPT !.pending = Tail(@), !.queue = <<Head(run.pending)>>,
                               !.processed = {}, !.visits = <<>>]
              ELSE [run EXCEPT !.pending = Tail(@)]
    /\ UNCHANGED <<gc, max_heap_size, heap, next_object_id, current_step,
                   total_objects_collected, total_memory_freed, rcvars>>

\* One iteration of the while loop of cascade_delete.
CDRunCascade ==
    /\ gc = "cd"
    /\ run.pc = "cascade" /\ run.queue # <<>>
    /\ LET st == cascade_iter([heap |-> heap, queue |-> run.queue,
                               processed |-> run.processed,
                               freed |-> run.freed, count |-> 0], current_step)
       IN /\ heap' = st.heap
          /\ total_objects_collected' = total_objects_collected + st.count
          /\ run' = [run EXCEPT !.queue = st.queue, !.processed = st.processed,
                                !.freed = st.freed,
                                !.visits = IF Head(run.queue) \in run.processed
                                           THEN @ ELSE Visit(@, Head(run.queue))]
    /\ UNCHANGED <<gc, max_heap_size, next_object_id, current_step,
                   total_memory_freed, rcvars>>

\* The queue is empty and no orphan is left: cascade_delete returns and so
\* does its caller; collect() adds up the statistics, and allocate() goes on
\* if it was allocate() that called collect().
CDRunReturn ==
    /\ gc = "cd"
    /\ run.pc = "cascade" /\ run.queue = <<>> /\ run.pending = <<>>
    /\ LET fits == /\ run.caller = "collect"
                   /\ run.size # 0
                   /\ has_enough_memory(heap, run.size)
       IN /\ heap' = IF fits
                     THEN NewObject(heap, next_object_id, run.size, current_step)
                     ELSE heap
          /\ next_object_id' = IF fits THEN next_object_id + 1 ELSE next_object_id
    /\ total_memory_freed' = IF run.caller = "collect"
                             THEN total_memory_freed + run.freed
                             ELSE total_memory_freed
    /\ run' = RunIdle
    /\ UNCHANGED <<gc, max_heap_size, current_step, total_objects_collected, rcvars>>

\* A call ReferenceCounter::cascade_delete(obj_id, visited) up to the entry of
\* its loop over the copied children: [stack, processed, visits].
rc_enter(objs, stk, visited, v, obj_id) ==
    IF obj_id \notin DOMAIN objs
    THEN [stack |-> stk, processed |-> visited, visits |-> v]
    ELSE IF obj_id \in visited
    THEN [stack |-> stk, processed |-> visited, visits |-> v]
    ELSE IF objs[obj_id].ref_count # 0
    THEN [stack |-> stk, processed |-> visited \cup {obj_id},
          visits |-> Visit(v, obj_id)]
    ELSE [stack |-> Append(stk, [id |-> obj_id,
                                 targets |-> objs[obj_id].references, i |-> 1]),
          processed |-> visited \cup {obj_id},
          visits |-> Visit(v, obj_id)]

\* RCHeap::remove_ref(from, to) that brings to's count to 0, up to the entry of
\* the loop of the cascade_delete(to) it triggers.
RCRunRemoveRef(from, to) ==
    /\ gc = "rc"
    /\ run.pc = "idle"
    /\ from >= 0 /\ to >= 0
    /\ rc_object_exists(from) /\ rc_object_exists(to)
    /\ has_reference_to(objects[from], to)
    /\ objects[to].ref_count = 1
    /\ LET o1 == [objects EXCEPT ![from] = remove_outgoing_ref(@, to)]
           o2 == [o1 EXCEPT ![to].ref_count = 0]
           e == rc_enter(o2, <<>>, {}, <<>>, to)
       IN /\ objects' = o2
          /\ events' = <<LogRemoveRef(from, to, 0)>>
          /\ run' = [RunIdle EXCEPT !.pc = "rc", !.stack = e.stack,
                                    !.processed = e.processed, !.visits = e.visits,
                                    !.entry = o2, !.arg = to]
    /\ UNCHANGED <<gc, max_heap_size, gvars, roots, negative_reported>>

\* RCHeap::remove_root(obj_id) that brings the count to 0, up to the entry of
\* the loop of the cascade_delete(obj_id) it triggers.
RCRunRemoveRoot(obj_id) ==
    /\ gc = "rc"
    /\ run.pc = "idle"
    /\ rc_object_exists(obj_id)
    /\ obj_id \in roots
    /\ objects[obj_id].ref_count = 1
    /\ LET o1 == [objects EXCEPT ![obj_id].ref_count = 0]
           e == rc_enter(o1, <<>>, {}, <<>>, obj_id)
       IN /\ objects' = o1
          /\ roots' = roots \ {obj_id}
          /\ events' = <<LogRemoveRef(0, obj_id, 0)>>
          /\ run' = [RunIdle EXCEPT !.pc = "rc", !.stack = e.stack,
                                    !.processed = e.processed, !.visits = e.visits,
                                    !.entry = o1, !.arg = obj_id]
    /\ UNCHANGED <<gc, max_heap_size, gvars, negative_reported>>

\* One iteration of the loop of the innermost cascade_delete, or its end:
\* erase the object and log the deletion.
RCRunCascade ==
    /\ gc = "rc"
    /\ run.pc = "rc" /\ run.stack # <<>>
    /\ LET top == run.stack[Len(run.stack)]
       IN IF top.i > Len(top.targets)
          THEN /\ objects' = Erase(objects, top.id)
               /\ events' = Append(events, LogDelete(top.id))
               /\ run' = [run EXCEPT !.stack = Pop(@)]
               /\ UNCHANGED negative_reported
          ELSE LET child == top.targets[top.i]
               IN IF child \notin DOMAIN objects
                  THEN /\ run' = [run EXCEPT !.stack = Advance(@)]
                       /\ UNCHANGED <<objects, events, negative_reported>>
                  ELSE LET dec == objects[child].ref_count - 1
                           n == IF dec < 0 THEN 0 ELSE dec
                           o1 == [objects EXCEPT ![child].ref_count = n]
                           e == IF n = 0
                                THEN rc_enter(o1, Advance(run.stack), run.processed,
                                              run.visits, child)
                                ELSE [stack |-> Advance(run.stack),
                                      processed |-> run.processed,
                                      visits |-> run.visits]
                       IN /\ objects' = o1
                          /\ events' = Append(events, LogRemoveRef(top.id, child, n))
                          /\ negative_reported' = (negative_reported \/ dec < 0)
                          /\ run' = [run EXCEPT !.stack = e.stack,
                                                !.processed = e.processed,
                                                !.visits = e.visits]
    /\ UNCHANGED <<gc, max_heap_size, gvars, roots>>

\* The outermost cascade_delete has returned: remove_ref / remove_root returns.
RCRunReturn ==
    /\ gc = "rc"
    /\ run.pc = "rc" /\ run.stack = <<>>
    /\ run' = RunIdle
    /\ UNCHANGED <<gc, max_heap_size, gvars, rcvars>>

\* ---------------------------------------------------------------- drivers
NextMS ==
    \/ MSCollect
    \/ \E size \in AllocSizes : next_object_id < MaxObj /\ MSAllocate(size)
    \/ \E f \in Ids, t \in Ids : MSAddReference(f, t)
    \/ \E f \in Ids, t \in Ids : MSRemoveReference(f, t)
    \/ \E i \in Ids : MSMakeRoot(i)
    \/ \E i \in Ids : MSRemoveRoot(i)
    \/ \E s \in 0 .. MaxStep : SetCurrentStep(s)

NextCD ==
    \/ CDCollect
    \/ \E size \in AllocSizes : next_object_id < MaxObj /\ CDAllocate(size)
    \/ \E f \in Ids, t \in Ids : CDAddReference(f, t)
    \/ \E f \in Ids, t \in Ids : CDRemoveReference(f, t)
    \/ \E i \in Ids : CDMakeRoot(i)
    \/ \E i \in Ids : CDRemoveRoot(i)
    \/ \E s \in 0 .. MaxStep : SetCurrentStep(s)

NextRC ==
    \/ \E i \in RcArgs : RCAllocate(i)
    \/ \E i \in RcArgs : RCAddRoot(i)
    \/ \E i \in RcArgs : RCRemoveRoot(i)
    \/ \E f \in RcArgs, t \in RcArgs : RCAddRef(f, t)
    \/ \E f \in RcArgs, t \in RcArgs : RCRemoveRef(f, t)
    \/ RCDetectLeaks

\* The state after construction of collector kind with the given capacity.
InitOf(kinds, capacity) ==
    /\ gc \in kinds
    /\ max_heap_size = capacity
    /\ heap = << >>
    /\ next_object_id = 0
    /\ current_step = 0
    /\ total_objects_collected = 0
    /\ total_memory_freed = 0
    /\ objects = << >>
    /\ roots = {}
    /\ events = << >>
    /\ negative_reported = FALSE
    /\ run = RunIdle

Init == InitOf({"ms", "cd", "rc"}, MaxHeapSize)
Next == NextMS \/ NextCD \/ NextRC
Spec == Init /\ [][Next]_vars

InitMS == InitOf({"ms"}, MaxHeapSize)
SpecMS == InitMS /\ [][NextMS]_vars
InitCD == InitOf({"cd"}, MaxHeapSize)
SpecCD == InitCD /\ [][NextCD]_vars
InitRC == InitOf({"rc"}, MaxHeapSize)
SpecRC == InitRC /\ [][NextRC]_vars

\* ---------------------------------------------------------------- scripted scenarios
\* The edges of the two scripted scenarios over objects 0..3:
\* the cycle scenario r=0, a=1, b=2, c=3 (r->a, a->b, b->c, c->a) and the
\* shared diamond root=0, A=1, B=2, C=3 (root->A, root->B, A->C, B->C).
CycleEdges == {<<0, 1>>, <<1, 2>>, <<2, 3>>, <<3, 1>>}
DiamondEdges == {<<0, 1>>, <<0, 2>>, <<1, 3>>, <<2, 3>>}
ScenEdges == CycleEdges \cup DiamondEdges

\* A driver that issues the operations of the scenarios in any order.
NextScen ==
    \/ MSCollect
    \/ next_object_id < ScenObj /\ MSAllocate(SmallSize)
    \/ \E e \in ScenEdges : MSAddReference(e[1], e[2])
    \/ \E e \in ScenEdges : MSRemoveReference(e[1], e[2])
    \/ MSMakeRoot(0)
    \/ MSRemoveRoot(0)
    \/ CDCollect
    \/ next_object_id < ScenObj /\ CDAllocate(SmallSize)
    \/ \E e \in ScenEdges : CDAddReference(e[1], e[2])
    \/ \E e \in ScenEdges : CDRemoveReference(e[1], e[2])
    \/ CDMakeRoot(0)
    \/ CDRemoveRoot(0)
    \/ \E i \in ScenIds : RCAllocate(i)
    \/ RCAddRoot(0)
    \/ RCRemoveRoot(0)
    \/ \E e \in ScenEdges : RCAddRef(e[1], e[2])
    \/ \E e \in ScenEdges : RCRemoveRef(e[1], e[2])
    \/ RCDetectLeaks

InitScen == InitOf({"ms", "cd", "rc"}, ScenObj * SmallSize)
SpecScen == InitScen /\ [][NextScen]_vars

\* A driver of the Mark-Sweep and Cascade collectors in which the simulation
\* step varies: set_current_step with any step up to StepMax between the
\* operations, objects of one size, room for two of them.
NextStep ==
    \/ \E s \in 0 .. StepMax : SetCurrentStep(s)
    \/ MSCollect
    \/ next_object_id < MaxObj /\ MSAllocate(SmallSize)
    \/ \E f \in Ids, t \in Ids : MSAddReference(f, t)
    \/ \E f \in Ids, t \in Ids : MSRemoveReference(f, t)
    \/ \E i \in Ids : MSMakeRoot(i)
    \/ \E i \in Ids : MSRemoveRoot(i)
    \/ CDCollect
    \/ next_object_id < MaxObj /\ CDAllocate(SmallSize)
    \/ \E f \in Ids, t \in Ids : CDAddReference(f, t)
    \/ \E f \in Ids, t \in Ids : CDRemoveReference(f, t)
    \/ \E i \in Ids : CDMakeRoot(i)
    \/ \E i \in Ids : CDRemoveRoot(i)
InitStep == InitOf({"ms", "cd"}, 2 * SmallSize)
SpecStep == InitStep /\ [][NextStep]_vars

\* A Mark-Sweep driver for the scenarios with objects of two sizes.
NextSized ==
    \/ MSCollect
    \/ \E size \in {SmallSize, LargeSize} : next_object_id < ScenObj /\ MSAllocate(size)
    \/ \E e \in ScenEdges : MSAddReference(e[1], e[2])
    \/ \E e \in ScenEdges : MSRemoveReference(e[1], e[2])
    \/ MSMakeRoot(0)
    \/ MSRemoveRoot(0)
InitSized == InitOf({"ms"}, ScenObj * SmallSize)
SpecSized == InitSized /\ [][NextSized]_vars

\* A driver that follows collect() and the cascades in steps: between two
\* operations the call in progress runs to its return, one loop iteration or
\* one call at a time; the operations without a loop are taken in one piece.
\* Objects of one size, room for two of them, so that allocate() collects.
NextRun ==
    \/ MSRunCollect(0)
    \/ next_object_id < MaxObj /\ MSRunAllocate(SmallSize)
    \/ /\ next_object_id < MaxObj /\ run.pc = "idle"
       /\ has_enough_memory(heap, SmallSize)
       /\ MSAllocate(SmallSize)
    \/ \E f \in Ids, t \in Ids : run.pc = "idle" /\ MSAddReference(f, t)
    \/ \E f \in Ids, t \in Ids : run.pc = "idle" /\ MSRemoveReference(f, t)
    \/ \E i \in Ids : run.pc = "idle" /\ MSMakeRoot(i)
    \/ \E i \in Ids : run.pc = "idle" /\ MSRemoveRoot(i)
    \/ MSRunRoot
    \/ MSRunDfs
    \/ MSRunSweep
    \/ CDRunCollect(0)
    \/ next_object_id < MaxObj /\ CDRunAllocate(SmallSize)
    \/ /\ next_object_id < MaxObj /\ run.pc = "idle"
       /\ has_enough_memory(heap, SmallSize)
       /\ CDAllocate(SmallSize)
    \/ \E f \in Ids, t \in Ids : run.pc = "idle" /\ CDAddReference(f, t)
    \/ \E f \in Ids, t \in Ids : CDRunRemoveReference(f, t)
    \/ \E f \in Ids, t \in Ids :
         /\ run.pc = "idle"
         /\ cd_remove_reference(f, t).count = 0
         /\ CDRemoveReference(f, t)
    \/ \E i \in Ids : run.pc = "idle" /\ CDMakeRoot(i)
    \/ \E i \in Ids : run.pc = "idle" /\ CDRemoveRoot(i)
    \/ CDRunOrphan
    \/ CDRunCascade
    \/ CDRunReturn
    \/ \E i \in RcArgs : run.pc = "idle" /\ RCAllocate(i)
    \/ \E i \in RcArgs : run.pc = "idle" /\ RCAddRoot(i)
    \/ \E f \in RcArgs, t \in RcArgs : run.pc = "idle" /\ RCAddRef(f, t)
    \/ \E f \in RcArgs, t \in RcArgs : RCRunRemoveRef(f, t)
    \/ \E f \in RcArgs, t \in RcArgs :
         /\ run.pc = "idle"
         /\ Len(rc_remove_ref(f, t).events) <= 1
         /\ RCRemoveRef(f, t)
    \/ \E i \in RcArgs : RCRunRemoveRoot(i)
    \/ \E i \in RcArgs :
         /\ run.pc = "idle"
         /\ Len(rc_remove_root(i).events) <= 1
         /\ RCRemoveRoot(i)
    \/ RCRunCascade
    \/ RCRunReturn

\* The steps of a call in progress. The collectors run single-threaded and
\* synchronously: a call that has begun keeps running.
RunStep ==
    \/ MSRunRoot \/ MSRunDfs \/ MSRunSweep
    \/ CDRunOrphan \/ CDRunCascade \/ CDRunReturn
    \/ RCRunCascade \/ RCRunReturn

InitRun == InitOf({"ms", "cd", "rc"}, 2 * SmallSize)
SpecRun == InitRun /\ [][NextRun]_vars /\ WF_vars(RunStep)

\* ================================================================ properties
\* Alive objects reachable from the alive roots of h over outgoing edges.
RECURSIVE ReachClosure(_, _)
ReachClosure(h, S) ==
    LET T == S \cup {t \in DOMAIN h :
                       h[t].is_alive /\ \E s \in S : t \in h[s].outgoing_references}
    IN IF T = S THEN S ELSE ReachClosure(h, T)
ReachableFromRoots(h) ==
    ReachClosure(h, {r \in DOMAIN h : h[r].is_alive /\ h[r].is_root})
Unreachable(h) ==
    {o \in DOMAIN h : h[o].is_alive /\ ~h[o].is_root /\ o \notin ReachableFromRoots(h)}
Alive(h) == {o \in DOMAIN h : h[o].is_alive}
Dead(h) == {o \in DOMAIN h : ~h[o].is_alive}

\* C1: Mark-Sweep: when a collect() returns (called by the driver, or by
\* allocate when memory is low), every object that was alive, non-root and not
\* reachable from an alive root at the start of the call is dead; members of
\* unreachable cycles included.
C1_UnreachableFreed ==
    gc = "ms" =>
      \A ord \in Orders(DOMAIN heap) :
        /\ \A o \in Unreachable(heap) :
             ~ms_collect(heap, ord, current_step).heap[o].is_alive
        /\ \A size \in AllocSizes :
             LET r == ms_allocate(size, ord)
             IN r.collected => \A o \in Unreachable(heap) : ~r.heap[o].is_alive

\* C1 witness: a collect() has killed both members of a cycle a->b->a (the swept
\* object keeps its own edge sets, and only collect() kills in Mark-Sweep).
C1_Witness ==
    /\ gc = "ms"
    /\ \E a, b \in Dead(heap) :
         /\ a # b
         /\ b \in heap[a].outgoing_references
         /\ b \in heap[a].incoming_references
         /\ total_objects_collected >= 2

\* C2: root immunity: no step of any of the three collectors kills or erases
\* an object whose root flag is set before and after the step.
C2_RootImmunity ==
    [][ /\ gc \in {"ms", "cd"} =>
             \A o \in DOMAIN heap :
               (heap[o].is_alive /\ heap[o].is_root /\ heap'[o].is_root)
                  => heap'[o].is_alive
        /\ gc = "rc" =>
             \A o \in roots \cap roots' :
               o \in DOMAIN objects => o \in DOMAIN objects' ]_vars

\* C2 witness: a cascade deleted an object d that pointed to the root o; o has
\* no incoming edge left and is alive.
C2_Witness ==
    /\ gc = "cd"
    /\ \E o \in Alive(heap), d \in Dead(heap) :
         /\ heap[o].is_root
         /\ heap[o].incoming_references = {}
         /\ o \in heap[d].outgoing_references

\* Number of heap objects whose references list contains o.
RcIncoming(o) ==
    Cardinality({x \in DOMAIN objects : has_reference_to(objects[x], o)})

\* C3: RC: after every operation, every heap object's ref_count is the number
\* of heap objects referencing it plus one if it is a root, it is never
\* negative, and no clamp-to-zero branch has been taken.
C3_RefCountExact ==
    gc = "rc" =>
      /\ ~negative_reported
      /\ \A o \in DOMAIN objects :
           /\ objects[o].ref_count = RcIncoming(o) + (IF o \in roots THEN 1 ELSE 0)
           /\ objects[o].ref_count >= 0

\* C3 witness: the last operation cascaded (a delete event) and a root that is
\* also referenced by a heap object has ref_count 2.
C3_Witness ==
    /\ gc = "rc"
    /\ \E i \in 1 .. Len(events) : events[i].event = "delete"
    /\ \E o \in roots : objects[o].ref_count = 2 /\ RcIncoming(o) = 1

\* C4: Mark-Sweep and Cascade: for alive a and b, b is in a.outgoing iff a is
\* in b.incoming; so |o.incoming| is the number of alive x with o in x.outgoing.
C4_EdgeSymmetry ==
    gc \in {"ms", "cd"} =>
      /\ \A a, b \in Alive(heap) :
           (b \in heap[a].outgoing_references) <=> (a \in heap[b].incoming_references)
      /\ \A o \in Alive(heap) :
           Cardinality(heap[o].incoming_references)
             = Cardinality({x \in Alive(heap) : o \in heap[x].outgoing_references})

\* C4 witness: an object that pointed to o was swept; o is alive and another
\* alive object still points to it.
C4_Witness ==
    /\ gc = "ms"
    /\ \E o \in Alive(heap), d \in Dead(heap) :
         /\ o \in heap[d].outgoing_references
         /\ heap[o].incoming_references # {}

\* The objects of the scenarios: r (the root) is 0 and a, b, c are 1, 2, 3.
ScenCore == 0 .. 3
EdgesOut(E, x) == {e[2] : e \in {d \in E : d[1] = x}}
SeqRange(s) == {s[i] : i \in 1 .. Len(s)}

\* In the Cascade heap h, of r, a, b, c exactly the objects ids are alive, with
\* exactly the edges of E among them and exactly the objects rooted as roots.
BuiltCD(h, ids, E, rooted) ==
    /\ ScenCore \subseteq DOMAIN h
    /\ \A x \in ScenCore : h[x].is_alive <=> x \in ids
    /\ \A x \in ids :
         /\ h[x].is_root <=> x \in rooted
         /\ h[x].outgoing_references = EdgesOut(E, x) \cap ids
\* In the RC heap objs, of r, a, b, c exactly the objects ids exist, with
\* exactly the edges of E among them, and rts is the root set.
BuiltRC(objs, rts, ids, E, rooted) ==
    /\ DOMAIN objs \cap ScenCore = ids
    /\ rts = rooted
    /\ \A x \in ids : SeqRange(objs[x].references) = EdgesOut(E, x) \cap ids

\* C5 (as stated): in the scenario r->a->b->c->a with r unrooted (r, a, b, c
\* being all the objects ever allocated), the Cascade collect() and the RC
\* unrooting of r free nothing, and detect_and_log_leaks reports exactly
\* a, b, c.
C5_FreesNothing ==
    /\ (gc = "cd" /\ DOMAIN heap = ScenCore /\ BuiltCD(heap, ScenCore, CycleEdges, {})) =>
         \A ord \in Orders(DOMAIN heap) :
           LET r == cd_collect(heap, ord, current_step)
           IN r.freed = 0 /\ Alive(r.heap) = Alive(heap)
    /\ (gc = "rc" /\ BuiltRC(objects, roots, ScenCore, CycleEdges, {0})) =>
         DOMAIN rc_remove_root(0).objects = DOMAIN objects
    /\ (gc = "rc" /\ BuiltRC(objects, roots, {1, 2, 3}, CycleEdges, {})) =>
         \A ord \in Orders(DOMAIN objects) :
           {LogLeak(1), LogLeak(2), LogLeak(3)}
             \subseteq SeqRange(detect_and_log_leaks(ord))

\* C5 (amended): in that scenario the Cascade collect() frees exactly r and
\* returns r's size, the RC unrooting of r erases exactly r, a, b and c stay
\* in both, and detect_and_log_leaks then logs a leak for exactly a, b and c.
C5_FreesOnlyR ==
    /\ (gc = "cd" /\ DOMAIN heap = ScenCore /\ BuiltCD(heap, ScenCore, CycleEdges, {})) =>
         \A ord \in Orders(DOMAIN heap) :
           LET r == cd_collect(heap, ord, current_step)
           IN /\ r.freed = heap[0].size
              /\ r.freed = SmallSize
              /\ r.count = 1
              /\ Alive(r.heap) = Alive(heap) \ {0}
    /\ (gc = "rc" /\ BuiltRC(objects, roots, ScenCore, CycleEdges, {0})) =>
         LET r == rc_remove_root(0)
         IN /\ r.ret
            /\ DOMAIN r.objects = DOMAIN objects \ {0}
            /\ BuiltRC(r.objects, r.roots, {1, 2, 3}, CycleEdges, {})
            /\ {i \in 1 .. Len(r.events) : r.events[i].event = "delete"}
                 = {Len(r.events)}
            /\ r.events[Len(r.events)] = LogDelete(0)
    /\ (gc = "rc" /\ BuiltRC(objects, roots, {1, 2, 3}, CycleEdges, {})) =>
         \A ord \in Orders(DOMAIN objects) :
           LET log == detect_and_log_leaks(ord)
           IN /\ SeqRange(log) \cap {LogLeak(x) : x \in ScenCore}
                   = {LogLeak(1), LogLeak(2), LogLeak(3)}
              /\ \A i, j \in 1 .. Len(log) : log[i] = log[j] => i = j

\* C5 witness: the RC scenario has run to its end: r is gone, the cycle is in
\* the heap and the last operation logged the leaks of a, b and c.
C5_Witness ==
    /\ gc = "rc"
    /\ BuiltRC(objects, roots, {1, 2, 3}, CycleEdges, {})
    /\ Len(events) = 3
    /\ SeqRange(events) = {LogLeak(1), LogLeak(2), LogLeak(3)}

\* Every member of S is in the RC heap objs and referenced by another member.
Mutual(objs, S) ==
    /\ S # {}
    /\ S \subseteq DOMAIN objs
    /\ \A s \in S : \E t \in S \ {s} : has_reference_to(objs[t], s)
\* The step is a remove_ref call that removes an edge between two members of S.
RemovesEdgeWithin(S) ==
    \E f, t \in S : has_reference_to(objects[f], t) /\ RCRemoveRef(f, t)

\* C6: RC: a set S whose members are each referenced by another member loses
\* no member in any step that removes no edge inside S; every member has
\* ref_count > 0 and detect_and_log_leaks logs a leak for each member.
C6_CycleLeaks ==
    /\ [](gc = "rc" =>
           \A S \in SUBSET DOMAIN objects :
             Mutual(objects, S) =>
               /\ \A s \in S : objects[s].ref_count > 0
               /\ \A ord \in Orders(DOMAIN objects) :
                    \A s \in S : LogLeak(s) \in SeqRange(detect_and_log_leaks(ord)))
    /\ [][gc = "rc" =>
           \A S \in SUBSET DOMAIN objects :
             (Mutual(objects, S) /\ ~RemovesEdgeWithin(S)) =>
               /\ Mutual(objects', S)
               /\ \A s \in S : objects'[s].ref_count > 0]_vars

\* C6 witness: a and b reference each other, nothing is a root, and the last
\* operation removed the edge x->a from an object x outside the pair.
C6_Witness ==
    /\ gc = "rc"
    /\ roots = {}
    /\ \E a, b, x \in DOMAIN objects :
         /\ a # b /\ x \notin {a, b}
         /\ Mutual(objects, {a, b})
         /\ events = <<LogRemoveRef(x, a, 1)>>

\* a and b are alive in the Cascade heap h with the edges a->b and b->a.
Pair(h, a, b) ==
    /\ a # b
    /\ object_exists(h, a) /\ object_exists(h, b)
    /\ b \in h[a].outgoing_references
    /\ a \in h[b].outgoing_references

\* C7: Cascade: objects a and b with the edges a->b and b->a are alive, with
\* both edges, after every step (collect, allocate with its collect,
\* remove_reference with its cascade, root changes) other than
\* remove_reference(a, b) and remove_reference(b, a).
C7_PairSurvives ==
    [][gc = "cd" =>
         \A a, b \in DOMAIN heap :
           (/\ Pair(heap, a, b)
            /\ ~CDRemoveReference(a, b)
            /\ ~CDRemoveReference(b, a))
             => Pair(heap', a, b)]_vars

\* C7 witness: a and b are non-root, nothing outside the pair points to them,
\* and a cascade has deleted an object x that pointed to a.
C7_Witness ==
    /\ gc = "cd"
    /\ \E a, b \in Alive(heap), x \in Dead(heap) :
         /\ Pair(heap, a, b)
         /\ ~heap[a].is_root /\ ~heap[b].is_root
         /\ heap[a].incoming_references \subseteq {a, b}
         /\ heap[b].incoming_references \subseteq {a, b}
         /\ a \in heap[x].outgoing_references

\* The delete events for object o in the event list ev.
Deletes(ev, o) == {i \in 1 .. Len(ev) : ev[i] = LogDelete(o)}

\* C8: shared diamond root->A, root->B, A->C, B->C (root 0, A 1, B 2, C 3) with
\* only root rooted, in the Cascade and the RC collector: removing root->X for
\* X one of A, B deletes X alone and leaves C with the other one; removing the
\* other edge root->Y then deletes Y and C, each once; no ref_count becomes
\* negative.
C8_SharedDiamond ==
    /\ gc = "cd" =>
         \A X \in {1, 2} :
           /\ BuiltCD(heap, ScenCore, DiamondEdges, {0}) =>
                LET r == cd_remove_reference(0, X)
                IN /\ r.ret
                   /\ r.count = 1
                   /\ BuiltCD(r.heap, ScenCore \ {X}, DiamondEdges, {0})
           /\ BuiltCD(heap, ScenCore \ {X}, DiamondEdges, {0}) =>
                LET r == cd_remove_reference(0, 3 - X)
                IN /\ r.ret
                   /\ r.count = 2
                   /\ BuiltCD(r.heap, {0}, DiamondEdges, {0})
    /\ gc = "rc" =>
         /\ ~negative_reported
         /\ \A o \in DOMAIN objects : objects[o].ref_count >= 0
         /\ \A X \in {1, 2} :
              /\ BuiltRC(objects, roots, ScenCore, DiamondEdges, {0}) =>
                   LET r == rc_remove_ref(0, X)
                   IN /\ r.ret
                      /\ ~r.negative
                      /\ BuiltRC(r.objects, r.roots, ScenCore \ {X}, DiamondEdges, {0})
                      /\ r.objects[3].ref_count = 1
                      /\ Cardinality(Deletes(r.events, X)) = 1
                      /\ Deletes(r.events, 3) = {}
              /\ BuiltRC(objects, roots, ScenCore \ {X}, DiamondEdges, {0}) =>
                   LET r == rc_remove_ref(0, 3 - X)
                   IN /\ r.ret
                      /\ ~r.negative
                      /\ BuiltRC(r.objects, r.roots, {0}, DiamondEdges, {0})
                      /\ Cardinality(Deletes(r.events, 3 - X)) = 1
                      /\ Cardinality(Deletes(r.events, 3)) = 1

\* C8 witness: in the Cascade collector both removals have run: A, B and C
\* are dead, still showing A->C and B->C, the root is alive, and three
\* objects were deleted, all by remove_reference cascades (collect() has
\* freed nothing).
C8_Witness ==
    /\ gc = "cd"
    /\ BuiltCD(heap, {0}, DiamondEdges, {0})
    /\ heap[1].outgoing_references = {3}
    /\ heap[2].outgoing_references = {3}
    /\ total_objects_collected = 3
    /\ total_memory_freed = 0

\* C9: idempotent add in all three collectors: add_reference (RC: add_ref) of
\* an edge that already exists between two live objects returns true and
\* leaves the heap state unchanged.
C9_IdempotentAdd ==
    /\ gc = "ms" =>
         \A f, t \in Alive(heap) :
           t \in heap[f].outgoing_references =>
             ms_add_reference(f, t) = [heap |-> heap, ret |-> TRUE]
    /\ gc = "cd" =>
         \A f, t \in Alive(heap) :
           t \in heap[f].outgoing_references =>
             cd_add_reference(f, t) = [heap |-> heap, ret |-> TRUE]
    /\ gc = "rc" =>
         \A f, t \in DOMAIN objects :
           has_reference_to(objects[f], t) =>
             LET r == rc_add_ref(f, t)
             IN r.ret /\ r.objects = objects /\ r.roots = roots

\* C10: no self-loops in any of the three collectors: no object has itself in
\* its outgoing or incoming edges (RC: in its references list).
C10_NoSelfLoops ==
    /\ gc \in {"ms", "cd"} =>
         \A o \in DOMAIN heap :
           /\ o \notin heap[o].outgoing_references
           /\ o \notin heap[o].incoming_references
    /\ gc = "rc" =>
         \A o \in DOMAIN objects : ~has_reference_to(objects[o], o)

\* C11: ids are unique among alive objects and the id of a dead or deleted
\* object is never given to a later successful allocation. Mark-Sweep and
\* Cascade: the ids handed out are exactly 0 .. next_object_id - 1, every
\* record sits under its own id, a successful allocate returns the unused id
\* next_object_id and a failed one leaves the counter alone. RC: an id whose
\* object the last operation deleted cannot be allocated again.
C11_NoIdReuse ==
    /\ gc \in {"ms", "cd"} =>
         /\ DOMAIN heap = 0 .. (next_object_id - 1)
         /\ \A i \in DOMAIN heap : heap[i].id = i
         /\ \A size \in AllocSizes, ord \in Orders(DOMAIN heap) :
              LET r == IF gc = "ms" THEN ms_allocate(size, ord)
                       ELSE cd_allocate(size, ord)
              IN IF r.ret = -1 THEN r.next = next_object_id
                 ELSE /\ r.ret = next_object_id
                      /\ r.ret \notin DOMAIN heap
                      /\ r.next = next_object_id + 1
    /\ gc = "rc" =>
         /\ \A i \in DOMAIN objects : objects[i].id = i
         /\ \A id \in RcArgs :
              Deletes(events, id) # {} => ~rc_allocate(id).ret

\* C12: Mark-Sweep and Cascade: a dead object has no edges left at either
\* endpoint: its own outgoing and incoming sets are empty and no other
\* object's outgoing or incoming set names it.
C12_NoDanglingEdges ==
    gc \in {"ms", "cd"} =>
      \A d \in Dead(heap) :
        /\ heap[d].outgoing_references = {}
        /\ heap[d].incoming_references = {}
        /\ \A x \in DOMAIN heap :
             /\ d \notin heap[x].outgoing_references
             /\ d \notin heap[x].incoming_references

\* What one step does to the collection steps: the step that kills an object
\* stamps it with the current step, and a dead object stays as it is.
StampedOnce ==
    gc \in {"ms", "cd"} =>
      \A o \in DOMAIN heap :
        /\ (heap[o].is_alive /\ ~heap'[o].is_alive) =>
             heap'[o].collection_step = current_step
        /\ ~heap[o].is_alive =>
             /\ ~heap'[o].is_alive
             /\ heap'[o].collection_step = heap[o].collection_step

\* C13: Mark-Sweep and Cascade: collection_step is -1 exactly while the object
\* is alive; the step that kills an object sets it to the collector's current
\* step; a dead object stays dead and keeps its collection_step.
C13_CollectionStep ==
    /\ [](gc \in {"ms", "cd"} =>
           \A o \in DOMAIN heap : (heap[o].collection_step = -1) <=> heap[o].is_alive)
    /\ [][StampedOnce]_vars

\* C13 witness: two objects died at different steps and the current step has
\* moved on since the later death.
C13_Witness ==
    /\ gc \in {"ms", "cd"}
    /\ current_step = 0
    /\ \E a, b \in Dead(heap) :
         heap[a].collection_step = 0 /\ heap[b].collection_step = StepMax

\* Sum of the sizes of the objects K of heap h.
RECURSIVE SizeOf(_, _)
SizeOf(h, K) ==
    IF K = {} THEN 0
    ELSE LET x == CHOOSE y \in K : TRUE IN h[x].size + SizeOf(h, K \ {x})
\* The Mark-Sweep heap has the same records as the Cascade heap.
BuiltMS(h, ids, E, rooted) == BuiltCD(h, ids, E, rooted)

\* C14: Mark-Sweep collect() returns the sum of the sizes of the objects it
\* moves from alive to dead, it revives nothing, and the alive memory drops by
\* the returned amount; in the scenario r->a->b->c->a (four objects of the
\* small size, r unrooted) it kills all four and returns four times that size.
C14_CollectReturnsFreed ==
    gc = "ms" =>
      \A ord \in Orders(DOMAIN heap) :
        LET r == ms_collect(heap, ord, current_step)
            killed == Alive(heap) \ Alive(r.heap)
        IN /\ Alive(r.heap) \subseteq Alive(heap)
           /\ r.freed = SizeOf(heap, killed)
           /\ r.count = Cardinality(killed)
           /\ get_total_memory(r.heap) = get_total_memory(heap) - r.freed
           /\ \A o \in DOMAIN heap : r.heap[o].size = heap[o].size
           /\ (/\ DOMAIN heap = ScenCore
               /\ BuiltMS(heap, ScenCore, CycleEdges, {})
               /\ \A o \in ScenCore : heap[o].size = SmallSize)
                => (killed = ScenCore /\ r.freed = 4 * SmallSize)

\* C14 witness: the scenario has been collected: r, a, b, c are dead, each
\* edge of r->a->b->c->a is still recorded at the endpoint that died first,
\* and collect() has freed four small objects in all.
C14_Witness ==
    /\ gc = "ms"
    /\ DOMAIN heap = ScenCore
    /\ Alive(heap) = {}
    /\ \A o \in ScenCore : heap[o].size = SmallSize
    /\ \A e \in CycleEdges :
         \/ e[2] \in heap[e[1]].outgoing_references
         \/ e[1] \in heap[e[2]].incoming_references
    /\ total_memory_freed = 4 * SmallSize
    /\ total_objects_collected = 4

\* Heap h with the edge from_id -> to_id taken out of both edge sets and no
\* object deleted.
BareRemove(h, from_id, to_id) ==
    LET h1 == [h EXCEPT ![from_id].outgoing_references = @ \ {to_id}]
    IN [h1 EXCEPT ![to_id].incoming_references = @ \ {from_id}]

\* Least set that contains K and every alive non-root object of h that has
\* incoming edges, all of them from objects of the set.
RECURSIVE CascadeSet(_, _)
CascadeSet(h, K) ==
    LET more == {x \in Alive(h) \ K :
                   /\ ~h[x].is_root
                   /\ h[x].incoming_references # {}
                   /\ h[x].incoming_references \subseteq K}
    IN IF more = {} THEN K ELSE CascadeSet(h, K \cup more)

\* C15: Cascade, reactive path: after a successful remove_reference(from, to),
\* if to is non-root and has no incoming edge left, then to is dead together
\* with every non-root object that lost its last incoming edge as a transitive
\* consequence, and nothing else died; if to is a root or still has an
\* incoming edge, no object died.
C15_ReactiveCascade ==
    gc = "cd" =>
      \A f \in Ids, t \in Ids :
        LET r == cd_remove_reference(f, t)
            h2 == BareRemove(heap, f, t)
            killed == Alive(heap) \ Alive(r.heap)
        IN r.ret =>
             /\ Alive(r.heap) \subseteq Alive(heap)
             /\ IF ~h2[t].is_root /\ h2[t].incoming_references = {}
                THEN killed = CascadeSet(h2, {t})
                ELSE killed = {}

\* C15 witness: a chain 0 -> 1 -> 2 whose first edge has been removed: 1 and 2
\* are dead, 0 is alive and no longer points at 1.
C15_Witness ==
    /\ gc = "cd"
    /\ DOMAIN heap = 0 .. 2
    /\ Alive(heap) = {0}
    /\ 1 \notin heap[0].outgoing_references
    /\ 0 \notin heap[1].incoming_references
    /\ 2 \in heap[1].outgoing_references
    /\ total_objects_collected = 2
    /\ total_memory_freed = 0

\* The orphans of heap h: alive, non-root, zero incoming edges.
Orphans(h) ==
    {x \in Alive(h) : ~h[x].is_root /\ h[x].incoming_references = {}}

\* C16: Cascade, batch path: collect() kills exactly the least set that holds
\* every orphan present at the start and every non-root object all of whose
\* incoming edges come from the set; when it returns, no alive non-root object
\* has zero incoming edges.
C16_BatchCascade ==
    gc = "cd" =>
      \A ord \in Orders(DOMAIN heap) :
        LET r == cd_collect(heap, ord, current_step)
        IN /\ Alive(r.heap) \subseteq Alive(heap)
           /\ Alive(heap) \ Alive(r.heap) = CascadeSet(heap, Orphans(heap))
           /\ Orphans(r.heap) = {}

\* C16 witness: collect() has killed two orphans and an object that only the
\* two of them pointed at: each edge is still recorded at its dead source, and
\* the bytes of all three objects were counted as freed by collect().
C16_Witness ==
    /\ gc = "cd"
    /\ DOMAIN heap = 0 .. 2
    /\ Alive(heap) = {}
    /\ \E x \in 0 .. 2 :
         \A y \in (0 .. 2) \ {x} :
           /\ x \in heap[y].outgoing_references
           /\ heap[y].outgoing_references = {x}
           /\ heap[y].incoming_references = {}
    /\ total_objects_collected = 3
    /\ total_memory_freed = 3 * SmallSize

\* C17: Cascade: for every existing edge from -> to, remove_reference(from, to)
\* followed by collect() ends with the same objects (alive flags, edge sets,
\* root flags, collection steps) as taking the edge out of both edge sets
\* without any cascade and then running collect(), whatever order either
\* collect() scans the heap in.
C17_PathsAgree ==
    gc = "cd" =>
      \A f \in Ids, t \in Ids :
        cd_remove_reference(f, t).ret =>
          \A ord1 \in Orders(DOMAIN heap), ord2 \in Orders(DOMAIN heap) :
            LET reactive == cd_collect(cd_remove_reference(f, t).heap, ord1, current_step).heap
                batch == cd_collect(BareRemove(heap, f, t), ord2, current_step).heap
            IN \A o \in DOMAIN heap :
                 /\ reactive[o].is_alive = batch[o].is_alive
                 /\ reactive[o].outgoing_references = batch[o].outgoing_references
                 /\ reactive[o].incoming_references = batch[o].incoming_references
                 /\ reactive[o].is_root = batch[o].is_root
                 /\ reactive[o].collection_step = batch[o].collection_step

\* C17 witness: a state where the two paths do different work: 0 -> 1 -> 2 with
\* 0 a root, so that removing 0 -> 1 cascades through 1 and 2 on the reactive
\* path and leaves both to collect() on the batch path.
C17_Witness ==
    /\ gc = "cd"
    /\ DOMAIN heap = 0 .. 2
    /\ Alive(heap) = 0 .. 2
    /\ heap[0].is_root /\ ~heap[1].is_root /\ ~heap[2].is_root
    /\ heap[0].outgoing_references = {1}
    /\ heap[1].outgoing_references = {2}
    /\ heap[2].outgoing_references = {}
    /\ Alive(cd_remove_reference(0, 1).heap) = {0}
    /\ Alive(BareRemove(heap, 0, 1)) = 0 .. 2

\* The sizes allocate() rejects outright.
InvalidSizes == {0, max_heap_size + 1, max_heap_size + SmallSize}

\* What allocate(size) of the collector in use gives when the heap is scanned
\* in order ord.
Allocate(size, ord) ==
    IF gc = "ms" THEN ms_allocate(size, ord) ELSE cd_allocate(size, ord)

\* What collect() of the collector in use gives on heap h scanned in order ord.
Collect(h, ord) ==
    IF gc = "ms" THEN ms_collect(h, ord, current_step)
    ELSE cd_collect(h, ord, current_step)

\* C18: Mark-Sweep and Cascade: allocate(size) with size = 0 or size >
\* max_heap_size returns -1, creates no object record, does not advance the id
\* counter, runs no collection and changes no existing object.
C18_InvalidSizeRejected ==
    gc \in {"ms", "cd"} =>
      \A size \in InvalidSizes, ord \in Orders(DOMAIN heap) :
        LET r == Allocate(size, ord)
        IN /\ r.ret = -1
           /\ r.heap = heap
           /\ r.next = next_object_id
           /\ ~r.collected
           /\ r.freed = 0 /\ r.count = 0

\* C18 witness: a full heap holding garbage that no collection has touched
\* yet: a collection would kill something here, and allocate(0) still returns
\* -1 with the heap as it is.
C18_Witness ==
    /\ gc \in {"ms", "cd"}
    /\ get_free_memory(heap) = 0
    /\ total_objects_collected = 0
    /\ \E ord \in Orders(DOMAIN heap) :
         /\ Collect(heap, ord).count > 0
         /\ Allocate(0, ord).ret = -1
         /\ Allocate(0, ord).heap = heap

\* Sizes allocate() accepts.
ValidSizes == {1, SmallSize, LargeSize, max_heap_size}

\* Capacity left beside the alive objects of heap h.
FreeOf(h) == max_heap_size - SizeOf(h, Alive(h))

\* C19: Mark-Sweep and Cascade: allocate(size) with a valid size runs collect()
\* once if free memory < size at the call and not at all otherwise; if free
\* memory is still < size afterwards it returns -1, creates no object and
\* leaves the id counter; otherwise it adds exactly one object, alive,
\* non-root, without edges, under an id no object has had.
C19_AllocateCollectsOnce ==
    gc \in {"ms", "cd"} =>
      \A size \in ValidSizes, ord \in Orders(DOMAIN heap) :
        LET r == Allocate(size, ord)
            c == Collect(heap, ord)
            low == FreeOf(heap) < size
            base == IF low THEN c.heap ELSE heap
        IN /\ r.collected <=> low
           /\ r.freed = (IF low THEN c.freed ELSE 0)
           /\ r.count = (IF low THEN c.count ELSE 0)
           /\ IF FreeOf(base) < size
              THEN /\ r.ret = -1
                   /\ r.heap = base
                   /\ r.next = next_object_id
              ELSE /\ r.ret = next_object_id
                   /\ r.ret \notin DOMAIN heap
                   /\ r.next = next_object_id + 1
                   /\ DOMAIN r.heap = DOMAIN heap \cup {r.ret}
                   /\ \A o \in DOMAIN heap : r.heap[o] = base[o]
                   /\ r.heap[r.ret].is_alive
                   /\ ~r.heap[r.ret].is_root
                   /\ r.heap[r.ret].size = size
                   /\ r.heap[r.ret].outgoing_references = {}
                   /\ r.heap[r.ret].incoming_references = {}

\* C19 witness: a full heap with one piece of garbage, where a small
\* allocation collects and then succeeds and a large one collects and still
\* fails, and where the driver may still allocate.
C19_Witness ==
    /\ gc \in {"ms", "cd"}
    /\ next_object_id < MaxObj
    /\ FreeOf(heap) = 0
    /\ \E ord \in Orders(DOMAIN heap) :
         /\ Allocate(SmallSize, ord).collected
         /\ Allocate(SmallSize, ord).ret = next_object_id
         /\ Allocate(LargeSize, ord).collected
         /\ Allocate(LargeSize, ord).ret = -1
         /\ Alive(Allocate(LargeSize, ord).heap) # Alive(heap)

\* What add_reference(from_id, to_id) of the Mark-Sweep or Cascade collector in
\* use gives.
AddReference(from_id, to_id) ==
    IF gc = "ms" THEN ms_add_reference(from_id, to_id)
    ELSE cd_add_reference(from_id, to_id)

\* C20: in all three collectors, add_reference(from, to) with an endpoint that
\* was never allocated or is dead or deleted returns false and changes no edge
\* set, ref_count, alive flag or root flag.
C20_MissingEndpointRejected ==
    \A f \in RcArgs, t \in RcArgs :
      /\ (gc \in {"ms", "cd"} /\ (f \notin Alive(heap) \/ t \notin Alive(heap))) =>
           /\ ~AddReference(f, t).ret
           /\ AddReference(f, t).heap = heap
      /\ (gc = "rc" /\ (f \notin DOMAIN objects \/ t \notin DOMAIN objects)) =>
           /\ ~rc_add_ref(f, t).ret
           /\ rc_add_ref(f, t).objects = objects
           /\ rc_add_ref(f, t).roots = roots

\* C20 witness: a heap with an alive object, a dead one and an id never
\* allocated, where adding an edge between the alive and the dead object is
\* refused in both directions.
C20_Witness ==
    /\ gc \in {"ms", "cd"}
    /\ Ids \ DOMAIN heap # {}
    /\ \E a \in Alive(heap), d \in Dead(heap) :
         /\ ~AddReference(a, d).ret
         /\ ~AddReference(d, a).ret
         /\ heap[a].is_root

\* What remove_reference(from_id, to_id) of the Mark-Sweep or Cascade collector
\* in use gives: [heap, ret].
RemoveReference(from_id, to_id) ==
    IF gc = "ms" THEN ms_remove_reference(from_id, to_id)
    ELSE [heap |-> cd_remove_reference(from_id, to_id).heap,
          ret |-> cd_remove_reference(from_id, to_id).ret]

\* C21: in all three collectors, remove_reference(from, to) with a missing or
\* dead endpoint, or with no edge from -> to, returns false, changes no edge
\* set, ref_count, alive flag or root flag, and deletes nothing.
C21_MissingEdgeRejected ==
    \A f \in RcArgs, t \in RcArgs :
      /\ (/\ gc \in {"ms", "cd"}
          /\ \/ f \notin Alive(heap)
             \/ t \notin Alive(heap)
             \/ t \notin heap[f].outgoing_references) =>
           /\ ~RemoveReference(f, t).ret
           /\ RemoveReference(f, t).heap = heap
           /\ gc = "cd" => cd_remove_reference(f, t).count = 0
      /\ (/\ gc = "rc"
          /\ \/ f \notin DOMAIN objects
             \/ t \notin DOMAIN objects
             \/ \A i \in 1 .. Len(objects[f].references) : objects[f].references[i] # t) =>
           /\ ~rc_remove_ref(f, t).ret
           /\ rc_remove_ref(f, t).objects = objects
           /\ rc_remove_ref(f, t).roots = roots
           /\ rc_remove_ref(f, t).events = << >>

\* C21 witness: an RC heap with an edge a -> b where b has no other reference,
\* so that remove_ref(a, b) would delete b, while the reverse call
\* remove_ref(b, a), for which no edge exists, is refused.
C21_Witness ==
    /\ gc = "rc"
    /\ \E a \in DOMAIN objects, b \in DOMAIN objects :
         /\ a # b
         /\ rc_remove_ref(a, b).ret
         /\ b \notin DOMAIN rc_remove_ref(a, b).objects
         /\ ~rc_remove_ref(b, a).ret
         /\ rc_remove_ref(b, a).objects = objects

\* The remove_ref events for target o among the first n events of ev.
DecrementsBefore(ev, o, n) ==
    {i \in 1 .. n : ev[i].event = "remove_ref" /\ ev[i].to = o}

\* The largest element of a non-empty set of numbers.
MaxOf(S) == CHOOSE x \in S : \A y \in S : y <= x

\* One RC step: each object it removes from the heap was last counted at 0
\* before its delete event, is not a root afterwards and is referenced by no
\* object left in the heap; and a successful remove_ref(from, to) on a target
\* with ref_count 1 has removed the target.
DeletedAtZero ==
    gc = "rc" =>
      /\ \A o \in DOMAIN objects \ DOMAIN objects' :
           /\ Deletes(events', o) # {}
           /\ \A d \in Deletes(events', o) :
                /\ DecrementsBefore(events', o, d) # {}
                /\ events'[MaxOf(DecrementsBefore(events', o, d))].ref_count = 0
           /\ o \notin roots'
           /\ \A s \in DOMAIN objects' : ~has_reference_to(objects'[s], o)
      /\ \A f \in RcArgs, t \in RcArgs :
           (/\ RCRemoveRef(f, t)
            /\ rc_remove_ref(f, t).ret
            /\ objects[t].ref_count = 1) => t \notin DOMAIN objects'

RcSources(objs, o) == {x \in DOMAIN objs : has_reference_to(objs[x], o)}

\* Least set that contains K and every non-root object of objs that is
\* referenced, and only by objects of the set (rts is the root set).
RECURSIVE RcCascadeSet(_, _, _)
RcCascadeSet(objs, rts, K) ==
    LET more == {x \in DOMAIN objs \ K :
                   /\ x \notin rts
                   /\ RcSources(objs, x) # {}
                   /\ RcSources(objs, x) \subseteq K}
    IN IF more = {} THEN K ELSE RcCascadeSet(objs, rts, K \cup more)

\* The RC heap objs without the objects K: the remaining objects keep their
\* references and lose one count per object of K that referenced them.
RcWithout(objs, K) ==
    [s \in DOMAIN objs \ K |->
       [objs[s] EXCEPT !.ref_count = @ - Cardinality(RcSources(objs, s) \cap K)]]

\* C23: RC: add_root(id) on an existing non-root object raises its ref_count
\* by exactly 1 and changes nothing else; remove_root(id) on a root lowers its
\* ref_count by exactly 1 and, exactly when the count becomes 0, deletes the
\* object and cascades through its outgoing references; an object that another
\* object still references survives remove_root.
C23_RootIsVirtualEdge ==
    gc = "rc" =>
      \A i \in DOMAIN objects :
        /\ i \notin roots =>
             /\ rc_add_root(i).ret
             /\ rc_add_root(i).objects = [objects EXCEPT ![i].ref_count = @ + 1]
             /\ rc_add_root(i).roots = roots \cup {i}
        /\ i \in roots =>
             LET r == rc_remove_root(i)
                 rts == roots \ {i}
             IN /\ r.ret
                /\ r.roots = rts
                /\ objects[i].ref_count >= 1
                /\ IF objects[i].ref_count = 1
                   THEN r.objects = RcWithout(objects, RcCascadeSet(objects, rts, {i}))
                   ELSE r.objects = [objects EXCEPT ![i].ref_count = @ - 1]
                /\ RcSources(objects, i) # {} => i \in DOMAIN r.objects

\* C23 witness: remove_root has just deleted a root together with a child only
\* it referenced, while a second child that is still counted elsewhere stays
\* in the heap with one count less.
C23_Witness ==
    /\ gc = "rc"
    /\ Len(events) >= 4
    /\ \E i \in RcArgs \ DOMAIN objects :
         /\ events[1] = LogRemoveRef(0, i, 0)
         /\ events[Len(events)] = LogDelete(i)
         /\ \E c \in RcArgs \ DOMAIN objects : c # i /\ Deletes(events, c) # {}
         /\ \E s \in DOMAIN objects, n \in 1 .. MaxObj : LogRemoveRef(i, s, n) \in SeqRange(events)

\* C24: Mark-Sweep collect() kills no object that at the start of the call is
\* an alive root or reachable from an alive root over outgoing edges; when
\* every alive object is reachable from a root (a rooted chain, say) collect()
\* returns 0 and the alive count is unchanged.
C24_ReachableSurvives ==
    gc = "ms" =>
      \A ord \in Orders(DOMAIN heap) :
        LET r == ms_collect(heap, ord, current_step)
        IN /\ ReachableFromRoots(heap) \subseteq Alive(r.heap)
           /\ Alive(heap) \subseteq ReachableFromRoots(heap) =>
                /\ r.freed = 0
                /\ r.count = 0
                /\ get_alive_objects_count(r.heap) = get_alive_objects_count(heap)

\* C24 witness: a rooted chain 0 -> 1 -> 2 after a collect(): all three are
\* alive and carry the mark of the traversal, and nothing was ever collected.
C24_Witness ==
    /\ gc = "ms"
    /\ DOMAIN heap = 0 .. 2
    /\ Alive(heap) = 0 .. 2
    /\ heap[0].is_root /\ ~heap[1].is_root /\ ~heap[2].is_root
    /\ heap[0].outgoing_references = {1}
    /\ heap[1].outgoing_references = {2}
    /\ heap[2].outgoing_references = {}
    /\ \A o \in 0 .. 2 : heap[o].is_marked
    /\ total_objects_collected = 0

\* The chain r -> a -> b -> c of the cycle scenario without its closing edge.
ChainEdges == CycleEdges \ {<<3, 1>>}

\* One RC step: an object that stays in the heap with a positive ref_count
\* before the step has a positive ref_count after it.
CountNeverBackToZero ==
    gc = "rc" =>
      \A o \in DOMAIN objects \cap DOMAIN objects' :
        objects[o].ref_count > 0 => objects'[o].ref_count > 0

\* C25: RC: an object that is in the heap with ref_count 0 has never had a
\* positive ref_count since it was allocated: every object whose count drops to
\* 0, directly or through a cascade, is gone when the remove_ref or remove_root
\* that caused it returns. In the chain r -> a -> b -> c with nothing rooted,
\* remove_ref(r, a) deletes a, b and c in that one call.
C25_CascadeComplete ==
    /\ [][CountNeverBackToZero]_vars
    /\ [](/\ gc = "rc"
          /\ DOMAIN objects = ScenCore
          /\ BuiltRC(objects, roots, ScenCore, ChainEdges, {})
          => LET r == rc_remove_ref(0, 1)
             IN /\ r.ret
                /\ DOMAIN r.objects = {0}
                /\ \A o \in 1 .. 3 : Cardinality(Deletes(r.events, o)) = 1)

\* C25 witness: the chain has just been cut at r -> a: the one call logged the
\* deletions of a, b and c, and r alone is left, with the count 0 it always had.
C25_Witness ==
    /\ gc = "rc"
    /\ DOMAIN objects = {0}
    /\ objects[0].ref_count = 0
    /\ objects[0].references = << >>
    /\ Len(events) >= 1
    /\ events[1] = LogRemoveRef(0, 1, 0)
    /\ \A o \in 1 .. 3 : Deletes(events, o) # {}

\* The results of the RC operations that can start a cascade in this state.
RcRemovals ==
    {rc_remove_ref(f, t) : f \in RcArgs, t \in RcArgs}
      \cup {rc_remove_root(i) : i \in RcArgs}

\* The objects with a delete event in the event list ev.
Deleted(ev) == {o \in DOMAIN objects : Deletes(ev, o) # {}}

\* Where the delete event of o stands in ev.
DeleteIndex(ev, o) == CHOOSE i \in Deletes(ev, o) : TRUE

\* The remove_ref events of a cascade in ev for the edge p -> c (the first
\* event of ev is the operation's own decrement).
EdgeEvents(ev, p, c) ==
    {i \in 2 .. Len(ev) :
       ev[i].event = "remove_ref" /\ ev[i].from = p /\ ev[i].to = c}

\* The outgoing edges of o when the cascade logged in ev starts: its
\* references without the one the operation itself removed (first event).
Children(ev, o) ==
    SeqRange(objects[o].references)
      \ (IF ev[1].event = "remove_ref" /\ ev[1].from = o THEN {ev[1].to} ELSE {})

\* The objects reachable from o over those edges.
RECURSIVE RcReach(_, _)
RcReach(ev, S) ==
    LET T == S \cup {x \in DOMAIN objects : \E s \in S : x \in Children(ev, s)}
    IN IF T = S THEN S ELSE RcReach(ev, T)

\* In ev every deleted object has one delete event, placed after one remove_ref
\* event for each of its outgoing edges.
EdgesBeforeDelete(ev) ==
    \A o \in Deleted(ev) :
      /\ Cardinality(Deletes(ev, o)) = 1
      /\ \A c \in Children(ev, o) :
           /\ Cardinality(EdgeEvents(ev, o, c)) = 1
           /\ \A i \in EdgeEvents(ev, o, c) : i < DeleteIndex(ev, o)

\* C26 as stated: RC cascade_delete(id) removes id and logs its delete event
\* only after one remove_ref event for each outgoing edge of id and after the
\* delete events of all descendants of id deleted in the same cascade; each
\* object gets at most one delete event per cascade.
C26_PostOrderAllDescendants ==
    gc = "rc" =>
      \A r \in RcRemovals :
        /\ EdgesBeforeDelete(r.events)
        /\ \A o \in Deleted(r.events) :
             \A x \in (RcReach(r.events, {o}) \cap Deleted(r.events)) \ {o} :
               DeleteIndex(r.events, x) < DeleteIndex(r.events, o)

\* C26 amended: as above, with the descendants narrowed to the objects whose
\* deletion the cascade of id itself started: a child that id's decrement
\* brings to 0 is deleted between that decrement and the deletion of id, and
\* every deleted object but the first was brought to 0 that way by a deleted
\* object.
C26_PostOrderOfRecursion ==
    gc = "rc" =>
      \A r \in RcRemovals :
        /\ EdgesBeforeDelete(r.events)
        /\ \A p \in Deleted(r.events) :
             \A c \in Children(r.events, p) :
               \A i \in EdgeEvents(r.events, p, c) :
                 r.events[i].ref_count = 0 =>
                   /\ c \in Deleted(r.events)
                   /\ i < DeleteIndex(r.events, c)
                   /\ DeleteIndex(r.events, c) < DeleteIndex(r.events, p)
        /\ \A x \in Deleted(r.events) :
             \/ r.events[1].to = x /\ r.events[1].ref_count = 0
             \/ \E p \in Deleted(r.events) \ {x} :
                  \E i \in EdgeEvents(r.events, p, x) : r.events[i].ref_count = 0

\* C26 witness: remove_root has just deleted t with edges t -> o, o -> x and
\* t -> x: o was deleted first, then x, which o also pointed at, then t.
C26_Witness ==
    /\ gc = "rc"
    /\ DOMAIN objects = {}
    /\ \E t \in RcArgs, o \in RcArgs, x \in RcArgs :
         events = << LogRemoveRef(0, t, 0),
                     LogRemoveRef(t, o, 0), LogRemoveRef(o, x, 1), LogDelete(o),
                     LogRemoveRef(t, x, 0), LogDelete(x), LogDelete(t) >>

\* A call followed in steps ends where the same call taken in one piece ends.
CallAgrees ==
    (run.pc # "idle" /\ run'.pc = "idle") =>
      /\ gc = "ms" =>
           LET r == ms_collect(run.entry, run.ord, current_step)
               fits == run.size # 0 /\ has_enough_memory(r.heap, run.size)
           IN /\ heap' = IF fits
                         THEN NewObject(r.heap, next_object_id, run.size, current_step)
                         ELSE r.heap
              /\ total_objects_collected' = total_objects_collected + r.count
              /\ total_memory_freed' = total_memory_freed + r.freed
      /\ (gc = "cd" /\ run.caller = "collect") =>
           LET r == cd_collect(run.entry, run.ord, current_step)
               fits == run.size # 0 /\ has_enough_memory(r.heap, run.size)
           IN /\ heap' = IF fits
                         THEN NewObject(r.heap, next_object_id, run.size, current_step)
                         ELSE r.heap
              /\ total_memory_freed' = total_memory_freed + r.freed
      /\ (gc = "cd" /\ run.caller = "remove_reference") =>
           heap' = cascade_delete(run.entry, run.arg, current_step).heap
      /\ gc = "rc" =>
           LET st == rc_cascade_delete([objects |-> run.entry, visited |-> {},
                                        events |-> <<events[1]>>,
                                        negative |-> negative_reported], run.arg)
           IN /\ objects' = st.objects
              /\ events' = st.events
              /\ negative_reported' = st.negative
RunAgreesWithCall == [][CallAgrees]_vars

\* No object has been marked (Mark-Sweep), processed (Cascade worklist) or
\* entered (RC cascade_delete) twice in the collect() or cascade in progress.
AtMostOnce == \A o \in DOMAIN run.visits : run.visits[o] <= 1

\* C27: every operation terminates on every heap graph the program can build,
\* cycles included: a call in progress always returns, and on the way
\* dfs_mark marks each object at most once per collect(), the Cascade worklist
\* processes each object at most once per cascade and RC cascade_delete enters
\* each object at most once per cascade.
C27_Terminates ==
    /\ []AtMostOnce
    /\ (run.pc # "idle") ~> (run.pc = "idle")

\* C27 witness: a collect() in the middle of a cycle: the traversal stands in
\* the loop of an object whose only target is already marked, two frames deep.
C27_Witness ==
    /\ gc = "ms"
    /\ run.pc = "mark"
    /\ Len(run.stack) = 2
    /\ LET top == run.stack[2]
       IN /\ top.i = 1
          /\ top.targets = <<run.stack[1].id>>
          /\ heap[run.stack[1].id].is_marked

\* dfs_mark with the outgoing references followed in the order eord gives
\* them (the code follows them in ascending order, the order of std::set).
RECURSIVE dfs_mark_in(_, _, _), dfs_targets_in(_, _, _, _)
dfs_mark_in(h, object_id, eord) ==
    IF ~object_exists(h, object_id) THEN h
    ELSE IF h[object_id].is_marked THEN h
    ELSE LET h1 == [h EXCEPT ![object_id].is_marked = TRUE]
             IsTarget(x) == x \in h1[object_id].outgoing_references
         IN dfs_targets_in(h1, SelectSeq(eord, IsTarget), 1, eord)
dfs_targets_in(h, targets, i, eord) ==
    IF i > Len(targets) THEN h
    ELSE dfs_targets_in(IF ~h[targets[i]].is_marked
                        THEN dfs_mark_in(h, targets[i], eord) ELSE h,
                        targets, i + 1, eord)

RECURSIVE mark_roots_in(_, _, _, _)
mark_roots_in(h, rootseq, i, eord) ==
    IF i > Len(rootseq) THEN h
    ELSE mark_roots_in(dfs_mark_in(h, rootseq[i], eord), rootseq, i + 1, eord)

\* mark_phase with the roots taken in the order rord and the edges in eord.
mark_phase_in(h, rord, eord) ==
    LET h0 == [i \in DOMAIN h |-> [h[i] EXCEPT !.is_marked = FALSE]]
    IN mark_roots_in(h0, get_root_objects(h0, rord), 1, eord)

\* The objects a collect() result r has killed, out of heap h.
KilledBy(h, r) == Alive(h) \ Alive(r.heap)

\* C28: Mark-Sweep: in every state, the marking collect() computes is the same
\* for every order in which the roots are traversed and the outgoing edges are
\* followed (and is the marking of the code, which follows them ascending), and
\* on that marking the sweep kills the same set of objects, as many of them,
\* and returns the same number of bytes for every order in which it iterates
\* the heap: the result of collect() does not depend on any of the orders.
C28_OrderIndependent ==
    gc = "ms" =>
        LET ids == DOMAIN heap
            marked == mark_phase(heap, SortedSeq(ids))
            ref == sweep_phase(marked, SortedSeq(ids), current_step)
        IN /\ \A rord, eord \in Orders(ids) : mark_phase_in(heap, rord, eord) = marked
           /\ \A rord \in Orders(ids) : mark_phase(heap, rord) = marked
           /\ \A sord \in Orders(ids) :
                 LET r == sweep_phase(marked, sord, current_step)
                 IN /\ KilledBy(heap, r) = KilledBy(heap, ref)
                    /\ r.freed = ref.freed
                    /\ r.count = ref.count

\* Two unreachable objects that point to each other beside a root: the sweep
\* meets them in either order, the two orders leave different edge sets on the
\* dead objects, and both kill the same two objects.
C28_Witness ==
    /\ gc = "ms"
    /\ \E r, a, b \in DOMAIN heap :
          /\ Cardinality({r, a, b}) = 3
          /\ DOMAIN heap = {r, a, b}
          /\ Alive(heap) = {r, a, b}
          /\ heap[r].is_root /\ ~heap[a].is_root /\ ~heap[b].is_root
          /\ heap[a].outgoing_references = {b}
          /\ heap[b].outgoing_references = {a}
          /\ \E o1, o2 \in Orders(DOMAIN heap) :
                /\ ms_collect(heap, o1, current_step).heap
                     # ms_collect(heap, o2, current_step).heap
                /\ KilledBy(heap, ms_collect(heap, o1, current_step)) = {a, b}
                /\ KilledBy(heap, ms_collect(heap, o2, current_step)) = {a, b}

\* h differs from heap at most in the root flag of object i.
OnlyRootFlagOf(h, i) ==
    /\ DOMAIN h = DOMAIN heap
    /\ \A o \in DOMAIN heap :
          IF o = i THEN [h[o] EXCEPT !.is_root = heap[o].is_root] = heap[o]
          ELSE h[o] = heap[o]

\* What make_root(i) and remove_root(i) do in the present state.
RootOpsTouchOnlyFlag ==
    \A i \in Ids :
        LET m == cd_make_root(i)
            r == cd_remove_root(i)
        IN /\ OnlyRootFlagOf(m, i) /\ OnlyRootFlagOf(r, i)
           /\ Alive(m) = Alive(heap) /\ Alive(r) = Alive(heap)
           /\ IF object_exists(heap, i)
              THEN m[i].is_root /\ ~r[i].is_root
              ELSE m = heap /\ r = heap
           \* the orphans remove_root leaves die in the collect() that follows
           /\ \A o \in DOMAIN r : \A ord \in Orders(DOMAIN r) :
                 is_orphan(r[o]) => ~cd_collect(r, ord, current_step).heap[o].is_alive

\* Every orphan of the present state dies in a collect() called by allocate.
AllocateCollectKillsOrphans ==
    \A o \in DOMAIN heap : \A size \in AllocSizes : \A ord \in Orders(DOMAIN heap) :
        LET a == cd_allocate(size, ord)
        IN is_orphan(heap[o]) /\ a.collected => ~a.heap[o].is_alive

\* A step that kills an orphan is a collect(), or an allocate that collects.
OrphanDiesInCollect ==
    \A o \in DOMAIN heap :
        is_orphan(heap[o]) /\ ~heap'[o].is_alive =>
            \/ CDCollect
            \/ \E size \in AllocSizes :
                  ~has_enough_memory(heap, size) /\ CDAllocate(size)

\* A make_root or remove_root step leaves the alive set and the totals alone.
RootStepKillsNothing ==
    (\E i \in Ids : CDMakeRoot(i) \/ CDRemoveRoot(i)) =>
        /\ Alive(heap') = Alive(heap)
        /\ total_objects_collected' = total_objects_collected
        /\ total_memory_freed' = total_memory_freed

AliveFlags(h) == [o \in DOMAIN h |-> h[o].is_alive]

\* What the four mutators, and an allocate that does not collect, do to the
\* alive flags of the present state.
MutatorsKeepAlive ==
    /\ \A f \in Ids, t \in Ids :
          /\ AliveFlags(ms_add_reference(f, t).heap) = AliveFlags(heap)
          /\ AliveFlags(ms_remove_reference(f, t).heap) = AliveFlags(heap)
    /\ \A i \in Ids :
          /\ AliveFlags(ms_make_root(i)) = AliveFlags(heap)
          /\ AliveFlags(ms_remove_root(i)) = AliveFlags(heap)
    /\ \A size \in AllocSizes : \A ord \in Orders(DOMAIN heap) :
          LET a == ms_allocate(size, ord)
          IN ~a.collected => \A o \in DOMAIN heap : a.heap[o].is_alive = heap[o].is_alive

\* A step in which an object dies is a collect() or an allocate that collects.
DiesInCollect ==
    (\E o \in DOMAIN heap : heap[o].is_alive /\ ~heap'[o].is_alive) =>
        \/ MSCollect
        \/ \E size \in AllocSizes :
              ~has_enough_memory(heap, size) /\ MSAllocate(size)

\* A step of one of the four mutators changes no alive flag.
MutatorStepKeepsAlive ==
    (\/ \E f \in Ids, t \in Ids : MSAddReference(f, t) \/ MSRemoveReference(f, t)
     \/ \E i \in Ids : MSMakeRoot(i) \/ MSRemoveRoot(i))
        => AliveFlags(heap') = AliveFlags(heap)

\* C30: Mark-Sweep: add_reference, remove_reference, make_root and
\* remove_root change the alive flag of no object, whatever their arguments,
\* nor does an allocate that finds enough memory; a step in which an object
\* dies is a collect(), called by the driver or by an allocate that finds too
\* little free memory.
C30_DiesOnlyInCollect ==
    /\ [](gc = "ms" => MutatorsKeepAlive)
    /\ [][gc = "ms" => DiesInCollect /\ MutatorStepKeepsAlive]_vars

\* remove_reference takes the last edge to a non-root object and remove_root
\* unroots an object nothing points to: both stay alive, unreachable, and the
\* collect() of the same state would kill them.
C30_Witness ==
    /\ gc = "ms"
    /\ \E f, t \in DOMAIN heap :
          /\ f # t
          /\ object_exists(heap, f) /\ object_exists(heap, t)
          /\ heap[f].is_root /\ ~heap[t].is_root
          /\ heap[f].incoming_references = {}
          /\ heap[t].incoming_references = {f}
          /\ LET r == ms_remove_reference(f, t)
                 u == ms_remove_root(f)
             IN /\ r.ret
                /\ r.heap[t].is_alive /\ t \in Unreachable(r.heap)
                /\ u[f].is_alive /\ {f, t} \subseteq Unreachable(u)
                /\ \A ord \in Orders(DOMAIN heap) :
                      /\ t \in Dead(ms_collect(r.heap, ord, current_step).heap)
                      /\ {f, t} \subseteq Dead(ms_collect(u, ord, current_step).heap)

\* Object record b is record a up to the mark flag and the members of K in
\* its two edge sets.
SameUpTo(a, b, K) ==
    /\ [b EXCEPT !.is_marked = a.is_marked,
                 !.outgoing_references = a.outgoing_references,
                 !.incoming_references = a.incoming_references] = a
    /\ b.outgoing_references \ K = a.outgoing_references \ K
    /\ b.incoming_references \ K = a.incoming_references \ K

\* The frame of one collect() result r on the present heap.
CollectFrame(r) ==
    LET K == KilledBy(heap, r)
    IN /\ DOMAIN r.heap = DOMAIN heap
       /\ \A o \in DOMAIN heap :
             /\ r.heap[o].is_root = heap[o].is_root
             /\ r.heap[o].size = heap[o].size
             /\ r.heap[o].id = heap[o].id
             /\ r.heap[o].allocation_step = heap[o].allocation_step
             /\ IF o \in K
                THEN SameUpTo([heap[o] EXCEPT !.is_alive = FALSE,
                                              !.collection_step = current_step],
                              r.heap[o], K)
                ELSE SameUpTo(heap[o], r.heap[o], K)
       /\ \A a \in Alive(r.heap), b \in Alive(r.heap) :
             /\ (b \in r.heap[a].outgoing_references) = (b \in heap[a].outgoing_references)
             /\ (a \in r.heap[b].incoming_references) = (a \in heap[b].incoming_references)

\* C31: Mark-Sweep: in every state and for every iteration order, collect()
\* leaves the root flag, size, id and allocation step of every object and
\* every edge between two objects alive after it as they were; apart from
\* mark flags it changes only the alive flag and collection_step of the
\* objects it kills and members of edge sets that name killed objects; and a
\* collect() step leaves the id counter as it was.
C31_CollectFrame ==
    /\ [](gc = "ms" => \A ord \in Orders(DOMAIN heap) :
                           CollectFrame(ms_collect(heap, ord, current_step)))
    /\ [][MSCollect => next_object_id' = next_object_id]_vars

\* A root with an edge to a survivor and an edge to an unreachable object
\* that points back at the survivor: collect() kills the one and keeps the
\* edge between the two survivors.
C31_Witness ==
    /\ gc = "ms"
    /\ \E r, s, k \in DOMAIN heap :
          /\ Cardinality({r, s, k}) = 3
          /\ Alive(heap) = {r, s, k}
          /\ heap[r].is_root /\ ~heap[s].is_root /\ ~heap[k].is_root
          /\ heap[r].outgoing_references = {s}
          /\ heap[k].outgoing_references = {s}
          /\ heap[s].incoming_references = {r, k}
          /\ \A ord \in Orders(DOMAIN heap) :
                LET c == ms_collect(heap, ord, current_step)
                IN /\ KilledBy(heap, c) = {k}
                   /\ c.heap[r].outgoing_references = {s}
                   /\ c.heap[s].incoming_references = {r}

\* The bytes of the alive objects of h, summed object by object.
AliveBytes(h) == SeqSizes(h, SortedSeq(Alive(h)), 1)

\* C32: Mark-Sweep and Cascade: in every state the sizes of the alive objects
\* sum to at most max_heap_size, so the unsigned subtraction of
\* get_free_memory() does not wrap and its value is the capacity minus the
\* alive bytes, between 0 and the capacity.
C32_FreeMemoryNeverUnderflows ==
    gc \in {"ms", "cd"} =>
        /\ get_total_memory(heap) = AliveBytes(heap)
        /\ AliveBytes(heap) <= max_heap_size
        /\ get_free_memory(heap) \in 0 .. max_heap_size
        /\ get_free_memory(heap) + AliveBytes(heap) = max_heap_size

\* A full heap of two rooted objects: nothing is free, and an allocate
\* collects, frees nothing and is refused.
C32_Witness ==
    /\ gc = "cd"
    /\ Cardinality(Alive(heap)) = 2
    /\ \A o \in Alive(heap) : heap[o].is_root
    /\ AliveBytes(heap) = max_heap_size
    /\ get_free_memory(heap) = 0
    /\ \A ord \in Orders(DOMAIN heap) :
          LET a == cd_allocate(SmallSize, ord)
          IN a.collected /\ a.ret = -1 /\ a.heap = heap

\* The bytes of the dead objects of h.
DeadBytes(h) == SeqSizes(h, SortedSeq(Dead(h)), 1)

\* The half of the statistics that counts objects.
CollectedCountsDead ==
    gc = "cd" => total_objects_collected = Cardinality(Dead(heap))

\* C33: Cascade: in every state total_objects_collected is the number of dead
\* objects and total_memory_freed is the sum of their sizes, whether they
\* died in collect() or in the cascade of a remove_reference.
C33_StatisticsAgreeWithHeap ==
    gc = "cd" =>
        /\ total_objects_collected = Cardinality(Dead(heap))
        /\ total_memory_freed = DeadBytes(heap)

\* C34: RC: in every state every id in the root set and every id in the
\* references list of a heap object is the id of an object in the heap.
C34_NoDanglingRootOrReference ==
    gc = "rc" =>
        /\ roots \subseteq DOMAIN objects
        /\ \A o \in DOMAIN objects :
              \A k \in 1 .. Len(objects[o].references) :
                  objects[o].references[k] \in DOMAIN objects

\* The last operation was the remove_root of d, which referred to the root s:
\* the cascade took the edge d -> s away and deleted d, s is still in the
\* heap and rooted, and d is in neither the heap nor the root set.
C34_Witness ==
    /\ gc = "rc"
    /\ \E d \in RcArgs, s \in RcArgs :
          /\ d # s
          /\ events = <<LogRemoveRef(0, d, 0), LogRemoveRef(d, s, 1), LogDelete(d)>>
          /\ d \notin DOMAIN objects /\ d \notin roots
          /\ s \in DOMAIN objects /\ s \in roots
====
